---- MODULE Spec2Model ----
(***************************************************************************)
(* BP variability metrics calculator (src/src/analysis/metrics.py).        *)
(*                                                                         *)
(* Floating-point values are modelled as exact rationals [n, d] with d > 0 *)
(* in lowest terms; NaN is the value with d = 0.  A square root is carried *)
(* to two decimals (truncated), the precision at which SDs are reported.   *)
(* Optional fields hold None when absent.                                  *)
(***************************************************************************)
EXTENDS Integers, Sequences, FiniteSets, TLC

VARIABLES
    pc,      \* which function is about to be called, or how the call ended
    input,   \* the argument(s) of the call
    output,  \* the value returned, or the exception raised
    frame    \* the locals of _calculate_patient_metrics when it ended

vars == <<pc, input, output, frame>>

-----------------------------------------------------------------------------
(* Bounds of the model *)

\* the largest number of rows in a patient group
MaxReadings == 4
\* the longest value array handed to _calculate_arv
MaxValues == 4
\* dipping percentages are drawn from -MaxDip .. 20 + MaxDip, in tenths
MaxDip == 3
\* the largest daytime bucket handed to _calculate_morning_surge
MaxDay == 8
\* rows of a visits frame
MaxVisits == 3
\* columns of a file
MaxColumns == 2
\* rows of a file of one column
MaxCells == 5
\* rows of a file with the canonical columns
MaxRows == 3
MaxAnalyses == 2

-----------------------------------------------------------------------------
(* Python / numpy values *)

None == [none |-> TRUE]
NaN == [n |-> 0, d |-> 0]
NaT == [n |-> 0, d |-> 0]

RECURSIVE Gcd(_, _)
Gcd(a, b) == IF b = 0 THEN a ELSE Gcd(b, a % b)

Abs(i) == IF i < 0 THEN -i ELSE i

\* the float n/d (d # 0), in lowest terms with a positive denominator
Num(n, d) ==
    LET g == Gcd(Abs(n), Abs(d))
        s == IF d < 0 THEN -1 ELSE 1
    IN  [n |-> s * (n \div g), d |-> s * (d \div g)]

Int2Float(i) == [n |-> i, d |-> 1]
Zero == Int2Float(0)

isnan(x) == x.d = 0

\* IEEE arithmetic: NaN propagates; x/0 does not occur for finite x except as
\* 0/0 = NaN (every caller guards or divides by a positive count)
Add(x, y) == IF isnan(x) \/ isnan(y) THEN NaN ELSE Num(x.n * y.d + y.n * x.d, x.d * y.d)
Sub(x, y) == IF isnan(x) \/ isnan(y) THEN NaN ELSE Num(x.n * y.d - y.n * x.d, x.d * y.d)
Mul(x, y) == IF isnan(x) \/ isnan(y) THEN NaN ELSE Num(x.n * y.n, x.d * y.d)
Div(x, y) == IF isnan(x) \/ isnan(y) \/ y.n = 0 THEN NaN ELSE Num(x.n * y.d, x.d * y.n)

\* IEEE comparisons: every ordered comparison with NaN is False
Lt(x, y) == ~isnan(x) /\ ~isnan(y) /\ x.n * y.d < y.n * x.d
Le(x, y) == ~isnan(x) /\ ~isnan(y) /\ x.n * y.d <= y.n * x.d
Gt(x, y) == Lt(y, x)
Ge(x, y) == Le(y, x)
Eq(x, y) == ~isnan(x) /\ ~isnan(y) /\ x.n * y.d = y.n * x.d

FAbs(x) == IF isnan(x) THEN NaN ELSE Num(Abs(x.n), x.d)

\* bool(x) of a float or None: None and 0.0 are falsy, NaN is truthy
Truthy(x) == x # None /\ (isnan(x) \/ x.n # 0)

\* round(x, ndigits) with scale = 10^ndigits: round-half-even; round(nan) is nan
Round(x, scale) ==
    IF isnan(x) THEN NaN
    ELSE LET t == x.n * scale
             q == t \div x.d
             r == t % x.d
             up == \/ 2 * r > x.d
                   \/ 2 * r = x.d /\ q % 2 = 1
         IN  Num(IF up THEN q + 1 ELSE q, scale)

RECURSIVE ISqrtIn(_, _, _)
\* the r in lo .. hi-1 with r*r <= k < (r+1)*(r+1), by bisection
ISqrtIn(k, lo, hi) ==
    IF hi - lo <= 1 THEN lo
    ELSE LET mid == (lo + hi) \div 2
         IN  IF mid * mid <= k THEN ISqrtIn(k, mid, hi) ELSE ISqrtIn(k, lo, mid)

\* sqrt(x) to two decimals for x >= 0
Sqrt(x) ==
    IF isnan(x) THEN NaN
    ELSE LET k == (x.n * 10000) \div x.d
         IN  Num(ISqrtIn(k, 0, IF k < 46340 THEN k + 1 ELSE 46340), 100)

-----------------------------------------------------------------------------
(* numpy array functions; an array is a sequence of floats *)

RECURSIVE np_sum(_)
np_sum(a) == IF Len(a) = 0 THEN Zero ELSE Add(Head(a), np_sum(Tail(a)))

\* np.mean: nan (with a warning) on an empty array
np_mean(a) == IF Len(a) = 0 THEN NaN ELSE Div(np_sum(a), Int2Float(Len(a)))

RECURSIVE np_min(_)
\* np.min of a non-empty array; NaN propagates.  np.min([]) raises ValueError
np_min(a) ==
    IF Len(a) = 1 THEN Head(a)
    ELSE LET m == np_min(Tail(a))
         IN  IF isnan(Head(a)) \/ isnan(m) THEN NaN
             ELSE IF Lt(m, Head(a)) THEN m ELSE Head(a)

RECURSIVE np_max(_)
np_max(a) ==
    IF Len(a) = 1 THEN Head(a)
    ELSE LET m == np_max(Tail(a))
         IN  IF isnan(Head(a)) \/ isnan(m) THEN NaN
             ELSE IF Gt(m, Head(a)) THEN m ELSE Head(a)

\* np.diff: a[i+1] - a[i]
np_diff(a) == [i \in 1..(Len(a) - 1) |-> Sub(a[i + 1], a[i])]

np_abs(a) == [i \in 1..Len(a) |-> FAbs(a[i])]

\* mutant: the population standard deviation (ddof = 0)
np_std_ddof0(a) ==
    IF Len(a) <= 1 THEN NaN
    ELSE LET m == np_mean(a)
             sq == [i \in 1..Len(a) |-> Mul(Sub(a[i], m), Sub(a[i], m))]
         IN  Sqrt(Div(np_sum(sq), Int2Float(Len(a))))

\* np.std(a, ddof=1): sqrt(sum((a - mean)^2) / (n - 1)); nan when n <= 1
np_std(a) ==
    IF Len(a) <= 1 THEN NaN
    ELSE LET m == np_mean(a)
             sq == [i \in 1..Len(a) |-> Mul(Sub(a[i], m), Sub(a[i], m))]
         IN  Sqrt(Div(np_sum(sq), Int2Float(Len(a) - 1)))

\* a[:k]
Take(a, k) == SubSeq(a, 1, IF k < Len(a) THEN k ELSE Len(a))

\* Series.dropna().values
dropna(a) == SelectSeq(a, LAMBDA x : ~isnan(x))

\* a - b with numpy broadcasting of one-dimensional arrays; the shapes must be
\* equal or one of them 1, otherwise the subtraction raises ValueError
Broadcastable(a, b) == Len(a) = Len(b) \/ Len(a) = 1 \/ Len(b) = 1

np_sub(a, b) ==
    LET len == IF Len(a) = 1 THEN Len(b) ELSE Len(a)
    IN  [i \in 1..len |-> Sub(a[IF Len(a) = 1 THEN 1 ELSE i],
                              b[IF Len(b) = 1 THEN 1 ELSE i])]

-----------------------------------------------------------------------------
(* pandas: a DataFrame is a sequence of rows [timestamp, sbp, dbp]; a        *)
(* timestamp is a whole number of hours since midnight of day 0, or NaT      *)

column(df, c) == [i \in 1..Len(df) |-> df[i][c]]

\* Series.dt.hour: NaN for NaT
hour(ts) == IF isnan(ts) THEN NaN ELSE Int2Float(ts.n % 24)

\* NaT sorts after every timestamp (na_position = 'last')
TimeLe(a, b) == isnan(b.timestamp) \/ Le(a.timestamp, b.timestamp)

\* where row r may be put into the sorted frame s: after the rows before it in
\* time, before the rows after it; among rows with the same timestamp at any
\* place (the default kind = 'quicksort' is not stable); a NaT row goes after
\* the NaT rows already placed (they are appended in their original order)
Insertions(r, s) ==
    { SubSeq(s, 1, k) \o <<r>> \o SubSeq(s, k + 1, Len(s)) : k \in
        { j \in 0..Len(s) :
            /\ \A i \in 1..j : TimeLe(s[i], r)
            /\ \A i \in (j + 1)..Len(s) : TimeLe(r, s[i]) /\ ~isnan(r.timestamp) } }

RECURSIVE sort_values(_)
\* the frames df.sort_values(time_col) can return
sort_values(df) ==
    IF Len(df) = 0 THEN { <<>> }
    ELSE UNION { Insertions(df[Len(df)], s) : s \in sort_values(SubSeq(df, 1, Len(df) - 1)) }

-----------------------------------------------------------------------------
(* BPMetricsCalculator *)

\* class DippingStatus(Enum)
EXTREME_DIPPER == [enum |-> "DippingStatus", name |-> "EXTREME_DIPPER"]
NORMAL_DIPPER == [enum |-> "DippingStatus", name |-> "NORMAL_DIPPER"]
NON_DIPPER == [enum |-> "DippingStatus", name |-> "NON_DIPPER"]
REVERSE_DIPPER == [enum |-> "DippingStatus", name |-> "REVERSE_DIPPER"]

\* class HypertensionStage(Enum)
NORMAL == [enum |-> "HypertensionStage", name |-> "NORMAL"]
ELEVATED == [enum |-> "HypertensionStage", name |-> "ELEVATED"]
STAGE_1 == [enum |-> "HypertensionStage", name |-> "STAGE_1"]
STAGE_2 == [enum |-> "HypertensionStage", name |-> "STAGE_2"]
CRISIS == [enum |-> "HypertensionStage", name |-> "CRISIS"]

DAYTIME_START == 8
DAYTIME_END == 22
NIGHTTIME_START == 0
NIGHTTIME_END == 6

Raise(exc, line) == [exception |-> exc, line |-> line]

\* mutant: the differences keep their sign
_calculate_arv_signed(values) ==
    IF Len(values) < 2 THEN Zero
    ELSE np_mean(np_diff(values))

_calculate_arv(values) ==
    IF Len(values) < 2 THEN Zero
    ELSE np_mean(np_abs(np_diff(values)))

\* rows of df whose hour is in [lo, hi); a NaN hour is in no range
HourRows(df, lo, hi) ==
    SelectSeq(df, LAMBDA r : /\ Ge(hour(r.timestamp), Int2Float(lo))
                             /\ Lt(hour(r.timestamp), Int2Float(hi)))

\* mutant: the gate lets a bucket of one reading pass
_split_day_night_one(df) ==
    LET daytime == HourRows(df, DAYTIME_START, DAYTIME_END)
        nighttime == HourRows(df, NIGHTTIME_START, NIGHTTIME_END)
    IN  IF Len(daytime) < 1 \/ Len(nighttime) < 1 THEN None
        ELSE [daytime |->
                [sbp |-> column(daytime, "sbp"),
                 dbp |-> column(daytime, "dbp"),
                 hours |-> DAYTIME_END - DAYTIME_START],
              nighttime |->
                [sbp |-> column(nighttime, "sbp"),
                 dbp |-> column(nighttime, "dbp"),
                 hours |-> NIGHTTIME_END - NIGHTTIME_START + 24
                           - DAYTIME_END + DAYTIME_START]]

_split_day_night(df) ==
    LET daytime == HourRows(df, DAYTIME_START, DAYTIME_END)
        nighttime == HourRows(df, NIGHTTIME_START, NIGHTTIME_END)
    IN  IF Len(daytime) < 2 \/ Len(nighttime) < 2 THEN None
        ELSE [daytime |->
                [sbp |-> column(daytime, "sbp"),
                 dbp |-> column(daytime, "dbp"),
                 hours |-> DAYTIME_END - DAYTIME_START],
              nighttime |->
                [sbp |-> column(nighttime, "sbp"),
                 dbp |-> column(nighttime, "dbp"),
                 hours |-> NIGHTTIME_END - NIGHTTIME_START + 24
                           - DAYTIME_END + DAYTIME_START]]

\* (sd_day * hours_day + sd_night * hours_night) / total_hours
WeightedSd(sd_day, hours_day, sd_night, hours_night) ==
    Div(Add(Mul(sd_day, Int2Float(hours_day)), Mul(sd_night, Int2Float(hours_night))),
        Int2Float(hours_day + hours_night))

_calculate_weighted_sd(day_night) ==
    LET day == day_night.daytime
        night == day_night.nighttime
    IN  << WeightedSd(np_std(day.sbp), day.hours, np_std(night.sbp), night.hours),
           WeightedSd(np_std(day.dbp), day.hours, np_std(night.dbp), night.hours) >>

_calculate_dipping(day_night) ==
    LET day_mean == np_mean(day_night.daytime.sbp)
        night_mean == np_mean(day_night.nighttime.sbp)
    IN  IF Eq(day_mean, Zero) THEN None
        ELSE Mul(Div(Sub(day_mean, night_mean), day_mean), Int2Float(100))

\* mutant: 20 falls in the last class
_classify_dipping_lt20(dipping_pct) ==
    IF Lt(dipping_pct, Zero) THEN REVERSE_DIPPER
    ELSE IF Lt(dipping_pct, Int2Float(10)) THEN NON_DIPPER
    ELSE IF Lt(dipping_pct, Int2Float(20)) THEN NORMAL_DIPPER
    ELSE EXTREME_DIPPER

_classify_dipping(dipping_pct) ==
    IF Lt(dipping_pct, Zero) THEN REVERSE_DIPPER
    ELSE IF Lt(dipping_pct, Int2Float(10)) THEN NON_DIPPER
    ELSE IF Le(dipping_pct, Int2Float(20)) THEN NORMAL_DIPPER
    ELSE EXTREME_DIPPER

\* mutant: the quarter is rounded up
MorningCount_ceil(n) == (n + 3) \div 4

\* len(day_sbp) // 4, at least 1
MorningCount(n) == IF n \div 4 > 1 THEN n \div 4 ELSE 1

_calculate_morning_surge(day_night) ==
    LET night_sbp == day_night.nighttime.sbp
        day_sbp == day_night.daytime.sbp
    IN  IF Len(night_sbp) = 0 \/ Len(day_sbp) = 0 THEN None
        ELSE Sub(np_mean(Take(day_sbp, MorningCount(Len(day_sbp)))), np_min(night_sbp))

\* mutant: the stage 2 test comes before the crisis test
_classify_bp_stage2_first(sbp, dbp) ==
    IF Ge(sbp, Int2Float(140)) \/ Ge(dbp, Int2Float(90)) THEN STAGE_2
    ELSE IF Gt(sbp, Int2Float(180)) \/ Gt(dbp, Int2Float(120)) THEN CRISIS
    ELSE IF Ge(sbp, Int2Float(130)) \/ Ge(dbp, Int2Float(80)) THEN STAGE_1
    ELSE IF Ge(sbp, Int2Float(120)) THEN ELEVATED
    ELSE NORMAL

_classify_bp(sbp, dbp) ==
    IF Gt(sbp, Int2Float(180)) \/ Gt(dbp, Int2Float(120)) THEN CRISIS
    ELSE IF Ge(sbp, Int2Float(140)) \/ Ge(dbp, Int2Float(90)) THEN STAGE_2
    ELSE IF Ge(sbp, Int2Float(130)) \/ Ge(dbp, Int2Float(80)) THEN STAGE_1
    ELSE IF Ge(sbp, Int2Float(120)) THEN ELEVATED
    ELSE NORMAL

\* lines 148-165: the locals computed from the sorted frame df
BasicLocals(df) ==
    LET sbp == dropna(column(df, "sbp"))
        dbp == dropna(column(df, "dbp"))
        mean_sbp == np_mean(sbp)
        mean_dbp == np_mean(dbp)
        sd_sbp == IF Len(sbp) > 1 THEN np_std(sbp) ELSE Zero
        sd_dbp == IF Len(dbp) > 1 THEN np_std(dbp) ELSE Zero
    IN  [df |-> df,
         sbp |-> sbp,
         dbp |-> dbp,
         timestamps |-> column(df, "timestamp"),
         mean_sbp |-> mean_sbp,
         mean_dbp |-> mean_dbp,
         sd_sbp |-> sd_sbp,
         sd_dbp |-> sd_dbp,
         cv_sbp |-> IF Gt(mean_sbp, Zero)
                    THEN Mul(Div(sd_sbp, mean_sbp), Int2Float(100)) ELSE Zero,
         cv_dbp |-> IF Gt(mean_dbp, Zero)
                    THEN Mul(Div(sd_dbp, mean_dbp), Int2Float(100)) ELSE Zero,
         arv_sbp |-> _calculate_arv(sbp),
         arv_dbp |-> _calculate_arv(dbp)]

\* lines 170-187: the day/night locals and the classification
CircadianLocals(l) ==
    LET day_night == IF Len(l.timestamps) > 0 THEN _split_day_night(l.df) ELSE None
        gate == day_night # None
        weighted == IF gate THEN _calculate_weighted_sd(day_night) ELSE <<None, None>>
        dipping_pct == IF gate THEN _calculate_dipping(day_night) ELSE None
    IN  [day_night |-> day_night,
         weighted_sd_sbp |-> weighted[1],
         weighted_sd_dbp |-> weighted[2],
         dipping_pct |-> dipping_pct,
         dipping_status |-> IF dipping_pct # None
                            THEN _classify_dipping(dipping_pct) ELSE None,
         morning_surge |-> IF gate THEN _calculate_morning_surge(day_night) ELSE None,
         bp_class |-> _classify_bp(l.mean_sbp, l.mean_dbp)]

\* round(x, ndigits) if x else None
RoundIf(x, scale) == IF Truthy(x) THEN Round(x, scale) ELSE None

\* lines 189-210: the record built from the locals l (sbp and dbp not empty)
VariabilityMetrics(l) ==
    [mean_sbp |-> Round(l.mean_sbp, 10),
     mean_dbp |-> Round(l.mean_dbp, 10),
     min_sbp |-> Round(np_min(l.sbp), 10),
     max_sbp |-> Round(np_max(l.sbp), 10),
     min_dbp |-> Round(np_min(l.dbp), 10),
     max_dbp |-> Round(np_max(l.dbp), 10),
     reading_count |-> Len(l.sbp),
     sd_sbp |-> Round(l.sd_sbp, 100),
     sd_dbp |-> Round(l.sd_dbp, 100),
     cv_sbp |-> Round(l.cv_sbp, 100),
     cv_dbp |-> Round(l.cv_dbp, 100),
     arv_sbp |-> Round(l.arv_sbp, 100),
     arv_dbp |-> Round(l.arv_dbp, 100),
     weighted_sd_sbp |-> RoundIf(l.weighted_sd_sbp, 100),
     weighted_sd_dbp |-> RoundIf(l.weighted_sd_dbp, 100),
     pulse_pressure_mean |-> Round(l.pulse_pressure, 10),
     morning_surge |-> RoundIf(l.morning_surge, 10),
     dipping_percentage |-> RoundIf(l.dipping_pct, 10),
     dipping_status |-> l.dipping_status,
     mean_bp_classification |-> l.bp_class]

\* _calculate_patient_metrics(df): the locals when the call ends and what it
\* returns or raises, for one outcome `sorted` of the sort
PatientMetrics(sorted) ==
    LET basic == BasicLocals(sorted)
        paired == Take(basic.dbp, Len(basic.sbp))
        all == [pulse_pressure |-> np_mean(np_sub(basic.sbp, paired))]
               @@ CircadianLocals(basic) @@ basic
    IN  IF ~Broadcastable(basic.sbp, paired)
        THEN [locals |-> basic, result |-> Raise("ValueError", 168)]
        ELSE IF Len(basic.sbp) = 0
        THEN [locals |-> all, result |-> Raise("ValueError", 192)]
        ELSE IF Len(basic.dbp) = 0
        THEN [locals |-> all, result |-> Raise("ValueError", 194)]
        ELSE [locals |-> all, result |-> VariabilityMetrics(all)]

IsRaise(r) == "exception" \in DOMAIN r

-----------------------------------------------------------------------------
(* calculate_visit_to_visit_variability; a visits frame is a sequence of rows *)
(* [patient_id, visit_date, sbp, dbp], patient_id a number, visit_date a      *)
(* whole number of days                                                       *)

\* the float inf (sign 1) or -inf (sign -1)
Inf(sign) == [inf |-> sign]
isinf(x) == "inf" \in DOMAIN x

\* x / y of numpy floats: x / 0 is inf with the sign of x (with a warning, no
\* exception), 0 / 0 is nan
np_true_divide(x, y) ==
    IF isnan(x) \/ isnan(y) THEN NaN
    ELSE IF y.n # 0 THEN Div(x, y)
    ELSE IF x.n = 0 THEN NaN
    ELSE Inf(IF x.n > 0 THEN 1 ELSE -1)

\* x * k for a float x and an integer k > 0
Times(x, k) == IF isinf(x) THEN x ELSE Mul(x, Int2Float(k))

\* a sorts before or with b on column c; a missing value sorts last
LeBy(c, a, b) == isnan(b[c]) \/ Le(a[c], b[c])

\* where row r may be put into the frame s sorted by column c (see Insertions)
InsertionsBy(c, r, s) ==
    { SubSeq(s, 1, k) \o <<r>> \o SubSeq(s, k + 1, Len(s)) : k \in
        { j \in 0..Len(s) :
            /\ \A i \in 1..j : LeBy(c, s[i], r)
            /\ \A i \in (j + 1)..Len(s) : LeBy(c, r, s[i]) /\ ~isnan(r[c]) } }

RECURSIVE sort_values_by(_, _)
\* the frames df.sort_values(c) can return
sort_values_by(df, c) ==
    IF Len(df) = 0 THEN { <<>> }
    ELSE UNION { InsertionsBy(c, df[Len(df)], s) :
                    s \in sort_values_by(SubSeq(df, 1, Len(df) - 1), c) }

RECURSIVE SortedKeys(_)
\* the keys of a groupby, ascending (sort = True)
SortedKeys(S) ==
    IF S = {} THEN <<>>
    ELSE LET m == CHOOSE x \in S : \A y \in S : Le(x, y)
         IN  <<m>> \o SortedKeys(S \ {m})

\* the keys of df.groupby(c), rows with a missing key left out (dropna = True),
\* and the group of key k, rows in their frame order
GroupKeys(df, c) == SortedKeys({ df[i][c] : i \in DOMAIN df } \ {NaN})
GroupRows(df, c, k) == SelectSeq(df, LAMBDA r : r[c] = k)

\* mutant: a single visit is enough
VisitGate_one(n) == n >= 1

\* line 371: len(sbp_values) >= 2
VisitGate(n) == n >= 2

\* lines 368-386: the result of one patient from the group sorted by visit date
VisitRecord(patient_id, group) ==
    LET sbp_values == column(group, "sbp")
        dbp_values == column(group, "dbp")
    IN  [patient_id |-> patient_id,
         visit_count |-> Len(sbp_values),
         mean_sbp |-> np_mean(sbp_values),
         mean_dbp |-> np_mean(dbp_values),
         sd_sbp |-> np_std(sbp_values),
         sd_dbp |-> np_std(dbp_values),
         cv_sbp |-> Times(np_true_divide(np_std(sbp_values), np_mean(sbp_values)), 100),
         cv_dbp |-> Times(np_true_divide(np_std(dbp_values), np_mean(dbp_values)), 100),
         arv_sbp |-> np_mean(np_abs(np_diff(sbp_values))),
         arv_dbp |-> np_mean(np_abs(np_diff(dbp_values))),
         max_sbp |-> np_max(sbp_values),
         min_sbp |-> np_min(sbp_values),
         range_sbp |-> Sub(np_max(sbp_values), np_min(sbp_values))]

RECURSIVE VisitResults(_, _)
\* lines 365-387: the lists `results` the loop over the groups of keys can build
VisitResults(visits, keys) ==
    IF Len(keys) = 0 THEN { <<>> }
    ELSE LET group == GroupRows(visits, "patient_id", Head(keys))
             heads == IF VisitGate(Len(group))
                      THEN { << VisitRecord(Head(keys), sorted) >> :
                                sorted \in sort_values_by(group, "visit_date") }
                      ELSE { <<>> }
         IN  { h \o t : h \in heads, t \in VisitResults(visits, Tail(keys)) }

\* the frames the function can return, a frame being the sequence of its rows
calculate_visit_to_visit_variability(visits) ==
    VisitResults(visits, GroupKeys(visits, "patient_id"))

-----------------------------------------------------------------------------
(* calculate_all_metrics; the readings frame has the columns of Columns, its   *)
(* patient_id cells are whole numbers or missing                               *)

Columns == { "timestamp", "sbp", "dbp", "patient_id" }

\* str(patient_id) of a key of column c: a numeric column with a missing cell
\* is float64 and its keys print as "1.0", otherwise it is int64 ("1")
str(df, c, k) ==
    IF \E i \in DOMAIN df : isnan(df[i][c])
    THEN ToString(k.n) \o ".0"
    ELSE ToString(k.n)

\* line 118: patient_col and patient_col in readings.columns
Grouped(readings, patient_col) ==
    /\ patient_col # None
    /\ patient_col.name # ""
    /\ patient_col.name \in Columns

RECURSIVE GroupResults(_, _, _)
\* lines 120-124: the dicts `results` the loop over the groups of keys can
\* build, or the exception a group raises
GroupResults(readings, c, keys) ==
    IF Len(keys) = 0 THEN { << >> }
    ELSE LET n == Len(keys)
             group == GroupRows(readings, c, keys[n])
             calls == { PatientMetrics(sorted).result : sorted \in sort_values(group) }
         IN  { IF IsRaise(before) THEN before
               ELSE IF IsRaise(metrics) THEN metrics
               ELSE (str(readings, c, keys[n]) :> metrics) @@ before :
                    before \in GroupResults(readings, c, SubSeq(keys, 1, n - 1)),
                    metrics \in calls }

\* what the call can return (a dict, as a function of its keys) or raise
calculate_all_metrics(readings, patient_col) ==
    IF Grouped(readings, patient_col)
    THEN GroupResults(readings, patient_col.name, GroupKeys(readings, patient_col.name))
    ELSE { IF IsRaise(metrics) THEN metrics ELSE ("all" :> metrics) :
              metrics \in { PatientMetrics(sorted).result : sorted \in sort_values(readings) } }

-----------------------------------------------------------------------------
(* ExcelReader; a str is a sequence of characters, the table raw_data a        *)
(* sequence of columns [name, numeric, cells] with as many cells each as the   *)
(* table has rows                                                              *)

\* class ColumnType(Enum)
PATIENT_ID == [enum |-> "ColumnType", name |-> "PATIENT_ID"]
DATE == [enum |-> "ColumnType", name |-> "DATE"]
TIME == [enum |-> "ColumnType", name |-> "TIME"]
DATETIME == [enum |-> "ColumnType", name |-> "DATETIME"]
SBP == [enum |-> "ColumnType", name |-> "SBP"]
DBP == [enum |-> "ColumnType", name |-> "DBP"]
HEART_RATE == [enum |-> "ColumnType", name |-> "HEART_RATE"]
NOTES == [enum |-> "ColumnType", name |-> "NOTES"]
IGNORE == [enum |-> "ColumnType", name |-> "IGNORE"]

\* str.lower() on the letters A to Z
UpperToLower ==
    ("A" :> "a") @@ ("B" :> "b") @@ ("C" :> "c") @@ ("D" :> "d") @@ ("E" :>
    "e") @@ ("F" :> "f") @@ ("G" :> "g") @@ ("H" :> "h") @@ ("I" :> "i") @@
    ("J" :> "j") @@ ("K" :> "k") @@ ("L" :> "l") @@ ("M" :> "m") @@ ("N" :>
    "n") @@ ("O" :> "o") @@ ("P" :> "p") @@ ("Q" :> "q") @@ ("R" :> "r") @@
    ("S" :> "s") @@ ("T" :> "t") @@ ("U" :> "u") @@ ("V" :> "v") @@ ("W" :>
    "w") @@ ("X" :> "x") @@ ("Y" :> "y") @@ ("Z" :> "z")

lower(t) ==
    [i \in DOMAIN t |-> IF t[i] \in DOMAIN UpperToLower THEN UpperToLower[t[i]] ELSE t[i]]

RECURSIVE strip(_)
\* str.strip(): without the blanks at either end
strip(t) ==
    IF Len(t) = 0 THEN t
    ELSE IF Head(t) = " " THEN strip(Tail(t))
    ELSE IF t[Len(t)] = " " THEN strip(SubSeq(t, 1, Len(t) - 1))
    ELSE t

\* the literal lit stands in t at position i
At(lit, t, i) == i + Len(lit) - 1 <= Len(t) /\ SubSeq(t, i, i + Len(lit) - 1) = lit

RECURSIVE SearchFrom(_, _, _)
\* the literals of parts occur in t at or after position start, in this order
\* and without overlap ('.*' between them matches any characters)
SearchFrom(parts, t, start) ==
    IF Len(parts) = 0 THEN TRUE
    ELSE \E i \in start..Len(t) :
            /\ At(Head(parts), t, i)
            /\ SearchFrom(Tail(parts), t, i + Len(Head(parts)))

\* re.search(pattern, t) for the patterns of COLUMN_PATTERNS: literals joined
\* by '.*', or one literal between '^' and '$'
re_search(pattern, t) ==
    IF pattern.anchored THEN t = pattern.parts[1]
    ELSE SearchFrom(pattern.parts, t, 1)

\* the dict COLUMN_PATTERNS in the order of its keys
COLUMN_PATTERNS ==
    <<
      [col_type |-> PATIENT_ID, patterns |-> <<
          [anchored |-> FALSE, parts |-> << << "p", "a", "t", "i", "e", "n", "t" >>, << "i", "d" >> >>],
          [anchored |-> FALSE, parts |-> << << "i", "d" >> >>],
          [anchored |-> FALSE, parts |-> << << "m", "r", "n" >> >>],
          [anchored |-> FALSE, parts |-> << << "s", "u", "b", "j", "e", "c", "t" >> >>],
          [anchored |-> FALSE, parts |-> << << "h", "a", "s", "t", "a" >>, << "n", "o" >> >>],
          [anchored |-> FALSE, parts |-> << << "p", "a", "r", "t", "i", "c", "i", "p", "a", "n", "t" >> >>],
          [anchored |-> FALSE, parts |-> << << "r", "e", "c", "o", "r", "d" >>, << "i", "d" >> >>],
          [anchored |-> FALSE, parts |-> << << "c", "a", "s", "e" >>, << "i", "d" >> >>]
      >>],
      [col_type |-> DATE, patterns |-> <<
          [anchored |-> TRUE, parts |-> << << "d", "a", "t", "e" >> >>],
          [anchored |-> FALSE, parts |-> << << "m", "e", "a", "s", "u", "r", "e", "m", "e", "n", "t" >>, << "d", "a", "t", "e" >> >>],
          [anchored |-> FALSE, parts |-> << << "r", "e", "a", "d", "i", "n", "g" >>, << "d", "a", "t", "e" >> >>],
          [anchored |-> FALSE, parts |-> << << "v", "i", "s", "i", "t" >>, << "d", "a", "t", "e" >> >>],
          [anchored |-> FALSE, parts |-> << << "t", "a", "r", "i", "h" >> >>],
          [anchored |-> FALSE, parts |-> << << "d", "a", "t", "u", "m" >> >>]
      >>],
      [col_type |-> TIME, patterns |-> <<
          [anchored |-> TRUE, parts |-> << << "t", "i", "m", "e" >> >>],
          [anchored |-> FALSE, parts |-> << << "m", "e", "a", "s", "u", "r", "e", "m", "e", "n", "t" >>, << "t", "i", "m", "e" >> >>],
          [anchored |-> FALSE, parts |-> << << "r", "e", "a", "d", "i", "n", "g" >>, << "t", "i", "m", "e" >> >>],
          [anchored |-> FALSE, parts |-> << << "s", "a", "a", "t" >> >>]
      >>],
      [col_type |-> DATETIME, patterns |-> <<
          [anchored |-> FALSE, parts |-> << << "d", "a", "t", "e", "t", "i", "m", "e" >> >>],
          [anchored |-> FALSE, parts |-> << << "t", "i", "m", "e", "s", "t", "a", "m", "p" >> >>],
          [anchored |-> FALSE, parts |-> << << "d", "a", "t", "e" >>, << "t", "i", "m", "e" >> >>],
          [anchored |-> FALSE, parts |-> << << "w", "h", "e", "n" >> >>]
      >>],
      [col_type |-> SBP, patterns |-> <<
          [anchored |-> FALSE, parts |-> << << "s", "b", "p" >> >>],
          [anchored |-> FALSE, parts |-> << << "s", "y", "s", "t", "o", "l", "i", "c" >> >>],
          [anchored |-> FALSE, parts |-> << << "s", "y", "s" >> >>],
          [anchored |-> FALSE, parts |-> << << "s", "i", "s", "t", "o", "l", "i", "k" >> >>],
          [anchored |-> FALSE, parts |-> << << "u", "p", "p", "e", "r" >> >>],
          [anchored |-> FALSE, parts |-> << << "s", "y", "s", "t", "o", "l", "i", "c" >>, << "b", "p" >> >>],
          [anchored |-> FALSE, parts |-> << << "s", "y", "s" >>, << "p", "r", "e", "s", "s", "u", "r", "e" >> >>]
      >>],
      [col_type |-> DBP, patterns |-> <<
          [anchored |-> FALSE, parts |-> << << "d", "b", "p" >> >>],
          [anchored |-> FALSE, parts |-> << << "d", "i", "a", "s", "t", "o", "l", "i", "c" >> >>],
          [anchored |-> FALSE, parts |-> << << "d", "i", "a" >> >>],
          [anchored |-> FALSE, parts |-> << << "d", "i", "a", "s", "t", "o", "l", "i", "k" >> >>],
          [anchored |-> FALSE, parts |-> << << "l", "o", "w", "e", "r" >> >>],
          [anchored |-> FALSE, parts |-> << << "d", "i", "a", "s", "t", "o", "l", "i", "c" >>, << "b", "p" >> >>],
          [anchored |-> FALSE, parts |-> << << "d", "i", "a" >>, << "p", "r", "e", "s", "s", "u", "r", "e" >> >>]
      >>],
      [col_type |-> HEART_RATE, patterns |-> <<
          [anchored |-> FALSE, parts |-> << << "h", "r" >> >>],
          [anchored |-> FALSE, parts |-> << << "h", "e", "a", "r", "t" >>, << "r", "a", "t", "e" >> >>],
          [anchored |-> FALSE, parts |-> << << "p", "u", "l", "s", "e" >> >>],
          [anchored |-> FALSE, parts |-> << << "b", "p", "m" >> >>],
          [anchored |-> FALSE, parts |-> << << "n", "a", "b", "i", "z" >> >>],
          [anchored |-> FALSE, parts |-> << << "k", "a", "l", "p" >> >>]
      >>],
      [col_type |-> NOTES, patterns |-> <<
          [anchored |-> FALSE, parts |-> << << "n", "o", "t", "e" >> >>],
          [anchored |-> FALSE, parts |-> << << "c", "o", "m", "m", "e", "n", "t" >> >>],
          [anchored |-> FALSE, parts |-> << << "r", "e", "m", "a", "r", "k" >> >>],
          [anchored |-> FALSE, parts |-> << << "o", "b", "s", "e", "r", "v", "a", "t", "i", "o", "n" >> >>],
          [anchored |-> FALSE, parts |-> << << "n", "o", "t" >> >>]
      >>]
    >>

\* the confidence literals
NameConfidence == Num(8, 10)

\* mutant: a later role of equal confidence replaces the earlier one
Better_ge(confidence, best_confidence) == Ge(confidence, best_confidence)

\* line 161: confidence > best_confidence
Better(confidence, best_confidence) == Gt(confidence, best_confidence)

RECURSIVE NameMatch(_, _, _)
\* lines 157-164: the loop over the first k roles of COLUMN_PATTERNS, from
\* best = (best_match, best_confidence) before the loop
NameMatch(col_lower, k, best) ==
    IF k = 0 THEN best
    ELSE LET before == NameMatch(col_lower, k - 1, best)
             entry == COLUMN_PATTERNS[k]
         IN  IF /\ \E j \in DOMAIN entry.patterns : re_search(entry.patterns[j], col_lower)
                /\ Better(NameConfidence, before.best_confidence)
             THEN [best_match |-> entry.col_type, best_confidence |-> NameConfidence]
             ELSE before

\* mutant: no cell counts as missing
isna_never(cell) == FALSE

\* a cell is missing (None or NaN)
isna(cell) == cell = NaN

\* pd.to_datetime(sample, errors = 'coerce') of one cell, as [valid, time]:
\* whether it is a timestamp and its time of day.  A text cell carries what its
\* parse gives, a timestamp in hours or NaT; a number (in a numeric column or
\* next to text in an object column) is taken as nanoseconds since the epoch,
\* and the time of day keeps the microseconds
to_datetime(numeric, cell) ==
    IF numeric \/ "parsed" \notin DOMAIN cell
    THEN [valid |-> TRUE, time |-> << "us", (cell.n \div cell.d) \div 1000 >>]
    ELSE IF isnan(cell.parsed) THEN [valid |-> FALSE, time |-> << >>]
    ELSE [valid |-> TRUE, time |-> << "h", cell.parsed.n % 24 >>]

\* lines 196-213: the role of a numeric sample by its mean, minimum and
\* maximum, None when no range fits
NumericRole(values) ==
    LET mean_val == np_mean(values)
        min_val == np_min(values)
        max_val == np_max(values)
    IN  IF /\ Le(Int2Float(80), mean_val) /\ Le(mean_val, Int2Float(200))
           /\ Ge(min_val, Int2Float(50)) /\ Le(max_val, Int2Float(250))
        THEN IF Gt(mean_val, Int2Float(100)) THEN << SBP, Num(5, 10) >>
             ELSE << DBP, Num(5, 10) >>
        ELSE IF /\ Le(Int2Float(40), mean_val) /\ Le(mean_val, Int2Float(120))
                /\ Ge(min_val, Int2Float(30)) /\ Le(max_val, Int2Float(220))
        THEN << HEART_RATE, Num(4, 10) >>
        ELSE << None, Zero >>

\* mutant: a ratio of exactly 0.8 passes
RatioPasses_ge(valid_ratio) == Ge(valid_ratio, Num(8, 10))

\* line 219: valid_ratio > 0.8
RatioPasses(valid_ratio) == Gt(valid_ratio, Num(8, 10))

\* lines 215-228: the role of a sample by what parses as a timestamp
DatetimeRole(numeric, sample) ==
    LET parsed == [i \in DOMAIN sample |-> to_datetime(numeric, sample[i])]
        valid == { i \in DOMAIN parsed : parsed[i].valid }
        valid_ratio == Num(Cardinality(valid), Len(sample))
    IN  IF RatioPasses(valid_ratio)
        THEN IF Cardinality({ parsed[i].time : i \in valid }) > 1
             THEN << DATETIME, Num(7, 10) >>
             ELSE << DATE, Num(6, 10) >>
        ELSE << None, Zero >>

_analyze_column_content(col) ==
    LET sample == Take(SelectSeq(col.cells, LAMBDA c : ~isna(c)), 100)
    IN  IF Len(sample) = 0 THEN << None, Zero >>
        ELSE IF col.numeric /\ NumericRole(sample)[1] # None THEN NumericRole(sample)
        ELSE DatetimeRole(col.numeric, sample)

\* lines 152-182: the ColumnMapping of one column of raw_data
DetectColumn(col) ==
    LET col_lower == strip(lower(col.name))
        named == NameMatch(col_lower, Len(COLUMN_PATTERNS),
                           [best_match |-> None, best_confidence |-> Zero])
        content == _analyze_column_content(col)
        best == IF named.best_match # None THEN named
                ELSE IF content[1] # None
                THEN [best_match |-> content[1], best_confidence |-> content[2]]
                ELSE [best_match |-> IGNORE, best_confidence |-> Zero]
    IN  [source_column |-> col.name,
         target_type |-> best.best_match,
         confidence |-> best.best_confidence]

_auto_detect_columns(raw_data) == [i \in DOMAIN raw_data |-> DetectColumn(raw_data[i])]

\* mutant: the outliers are counted whatever the dtype of the column
QualityIssues_any_dtype(col, mapping, role, lo, hi) ==
    LET null_count == Cardinality({ i \in DOMAIN col.cells : isna(col.cells[i]) })
        outliers == Cardinality({ i \in DOMAIN col.cells :
                        /\ "parsed" \notin DOMAIN col.cells[i]
                        /\ \/ Lt(col.cells[i], Int2Float(lo))
                           \/ Gt(col.cells[i], Int2Float(hi)) })
    IN  IF mapping.target_type # role THEN << >>
        ELSE (IF null_count > 0
              THEN << [issue |-> "missing values", role |-> role, count |-> null_count] >>
              ELSE << >>)
             \o
             (IF outliers > 0
              THEN << [issue |-> "potential outliers", role |-> role, count |-> outliers] >>
              ELSE << >>)

\* lines 253-275: the issues of the data of one column, mapped by mapping
QualityIssues(col, mapping, role, lo, hi) ==
    LET null_count == Cardinality({ i \in DOMAIN col.cells : isna(col.cells[i]) })
        outliers == IF col.numeric
                    THEN Cardinality({ i \in DOMAIN col.cells :
                            \/ Lt(col.cells[i], Int2Float(lo))
                            \/ Gt(col.cells[i], Int2Float(hi)) })
                    ELSE 0
    IN  IF mapping.target_type # role THEN << >>
        ELSE (IF null_count > 0
              THEN << [issue |-> "missing values", role |-> role, count |-> null_count] >>
              ELSE << >>)
             \o
             (IF outliers > 0
              THEN << [issue |-> "potential outliers", role |-> role, count |-> outliers] >>
              ELSE << >>)

RECURSIVE DataIssues(_, _, _)
\* the issues of the first k columns, in the order of the mappings
DataIssues(raw_data, mappings, k) ==
    IF k = 0 THEN << >>
    ELSE DataIssues(raw_data, mappings, k - 1)
         \o QualityIssues(raw_data[k], mappings[k], SBP, 50, 300)
         \o QualityIssues(raw_data[k], mappings[k], DBP, 30, 200)

\* the list of issues; the text of an issue is kept as its parts
_validate_data(raw_data, mappings) ==
    LET found == { mappings[i].target_type : i \in DOMAIN mappings }
        missing == { SBP, DBP } \ found
    IN  (IF missing # {}
         THEN << [issue |-> "Missing required columns", columns |-> missing] >>
         ELSE << >>)
        \o
        (IF DATETIME \notin found /\ DATE \notin found
         THEN << [issue |-> "No date/time column detected"] >>
         ELSE << >>)
        \o DataIssues(raw_data, mappings, Len(mappings))

\* lines 128-145: the table with its column names cleaned and the preview
load_file(file) ==
    LET raw_data == [i \in DOMAIN file |-> [file[i] EXCEPT !.name = strip(file[i].name)]]
        detected == _auto_detect_columns(raw_data)
    IN  [raw_data |-> raw_data,
         preview |->
            [columns |-> [i \in DOMAIN raw_data |-> raw_data[i].name],
             sample_rows |-> [i \in DOMAIN raw_data |->
                                [raw_data[i] EXCEPT !.cells = Take(raw_data[i].cells, 10)]],
             row_count |-> IF Len(raw_data) = 0 THEN 0 ELSE Len(raw_data[1].cells),
             detected_mappings |-> detected,
             issues |-> _validate_data(raw_data, detected)]]

\* ColumnType.value
Value(col_type) ==
    CASE col_type = PATIENT_ID -> "patient_id"
      [] col_type = DATE -> "date"
      [] col_type = TIME -> "time"
      [] col_type = DATETIME -> "datetime"
      [] col_type = SBP -> "sbp"
      [] col_type = DBP -> "dbp"
      [] col_type = HEART_RATE -> "heart_rate"
      [] col_type = NOTES -> "notes"
      [] col_type = IGNORE -> "ignore"

\* the columns of raw_data named source (one or none)
ColumnsNamed(raw_data, source) == { i \in DOMAIN raw_data : raw_data[i].name = source }

\* mutant: the columns mapped to Notes are skipped like those mapped to Ignore
Skipped_notes(target_type) == target_type = IGNORE \/ target_type = NOTES

\* line 301: target_type == ColumnType.IGNORE
Skipped(target_type) == target_type = IGNORE

\* lines 300-308: the frame `result`, a function from its column names to their
\* cells, after the item of the mapping is handled.  raw_data[source_col] of a
\* name that two columns carry is a frame of both, and its assignment to one
\* column of `result` raises
ProjectItem(raw_data, result, item) ==
    IF IsRaise(result) THEN result
    ELSE IF Skipped(item.target_type) THEN result
    ELSE IF ColumnsNamed(raw_data, item.source_column) = {} THEN result
    ELSE IF Cardinality(ColumnsNamed(raw_data, item.source_column)) > 1
    THEN Raise("ValueError", 308)
    ELSE LET i == CHOOSE j \in ColumnsNamed(raw_data, item.source_column) : TRUE
         IN  (Value(item.target_type) :> raw_data[i].cells) @@ result

RECURSIVE Projected(_, _, _)
\* lines 298-308: the frame `result` after the first k items of the mapping
Projected(raw_data, mappings, k) ==
    IF k = 0 THEN << >>
    ELSE CHOOSE result \in
            { ProjectItem(raw_data, before, mappings[k]) :
                before \in { Projected(raw_data, mappings, k - 1) } } : TRUE

\* pd.to_datetime(..., errors = 'coerce') of the text 'date time' of two cells:
\* a timestamp when the date cell holds a date (a day) and the time cell a
\* time (an hour), NaT otherwise (the text of a missing cell does not parse)
ParseDateTime(date, time) ==
    IF "date" \in DOMAIN date /\ "time" \in DOMAIN time
    THEN IF isnan(date.date) \/ isnan(time.time) THEN NaT
         ELSE Int2Float(24 * date.date.n + time.time.n)
    ELSE NaT

\* pd.to_datetime(..., errors = 'coerce') of a cell of a date column: midnight
\* of its day
ParseDate(date) ==
    IF "date" \in DOMAIN date
    THEN IF isnan(date.date) THEN NaT ELSE Int2Float(24 * date.date.n)
    ELSE NaT

\* pd.to_datetime(..., errors = 'coerce') of a cell of a datetime column
ParseTimestamp(cell) == IF "parsed" \in DOMAIN cell THEN cell.parsed ELSE NaT

\* pd.to_numeric(..., errors = 'coerce') of a cell: a number stays, a text
\* becomes the number it spells or NaN
to_numeric(cell) == IF "text" \in DOMAIN cell THEN cell.text ELSE cell

\* f without the columns of `names`
Drop(f, names) == [c \in DOMAIN f \ names |-> f[c]]

\* mutant: the merge of date and time needs that no datetime column is mapped
MergesDateTime_unless_mapped(columns) ==
    "date" \in columns /\ "time" \in columns /\ "datetime" \notin columns

\* line 311: 'date' in result.columns and 'time' in result.columns
MergesDateTime(columns) == "date" \in columns /\ "time" \in columns

\* lines 310-321: the timestamp column
CombineDateTime(result) ==
    IF MergesDateTime(DOMAIN result)
    THEN ("datetime" :> [i \in DOMAIN result["date"] |->
                            ParseDateTime(result["date"][i], result["time"][i])])
         @@ Drop(result, { "date", "time" })
    ELSE IF "date" \in DOMAIN result /\ "datetime" \notin DOMAIN result
    THEN ("datetime" :> [i \in DOMAIN result["date"] |-> ParseDate(result["date"][i])])
         @@ Drop(result, { "date" })
    ELSE IF "datetime" \in DOMAIN result
    THEN ("datetime" :> [i \in DOMAIN result["datetime"] |->
                            ParseTimestamp(result["datetime"][i])])
         @@ result
    ELSE result

\* lines 323-326: the blood pressure and heart rate columns as numbers
ConvertNumeric(result) ==
    [c \in DOMAIN result |->
        IF c \in { "sbp", "dbp", "heart_rate" }
        THEN [i \in DOMAIN result[c] |-> to_numeric(result[c][i])]
        ELSE result[c]]

\* apply_mapping on the reader: the reader after the call and what the call
\* returns or raises.  The mapping, a dict, is the sequence of its items
apply_mapping(reader, mappings) ==
    IF reader.raw_data = None
    THEN [reader |-> reader, result |-> Raise("ValueError", 293)]
    ELSE LET result == Projected(reader.raw_data.table, mappings, Len(mappings))
         IN  [reader |-> [reader EXCEPT !.mappings = mappings],
              result |-> IF IsRaise(result) THEN result
                         ELSE ConvertNumeric(CombineDateTime(result))]

\* the frame a reader holds in raw_data once a file is read
DataFrame(table) == [table |-> table]

\* ExcelReader.__init__
ExcelReader == [raw_data |-> None, file_path |-> None, mappings |-> << >>]

\* load_file on the reader: the reader after the call and what the call returns
\* or raises.  A file is [file_path, supported, table]: its path, whether its
\* suffix is .xlsx, .xls or .csv, and the table read from it.  Of a name that
\* two columns carry after the trim, raw_data[name] is a frame of both and the
\* test of its null count in _validate_data raises
load_file_on(reader, file) ==
    LET opened == [reader EXCEPT !.file_path = file.file_path]
    IN  IF ~file.supported
        THEN [reader |-> opened, result |-> Raise("ValueError", 126)]
        ELSE CHOOSE call \in
                { LET read == [opened EXCEPT !.raw_data = DataFrame(loaded.raw_data)]
                      detected == loaded.preview.detected_mappings
                  IN  IF \E i \in DOMAIN detected :
                            /\ detected[i].target_type \in { SBP, DBP }
                            /\ Cardinality(ColumnsNamed(loaded.raw_data,
                                                        detected[i].source_column)) > 1
                      THEN [reader |-> read, result |-> Raise("ValueError", 257)]
                      ELSE [reader |-> read, result |-> loaded.preview] :
                    loaded \in { load_file(file.table) } } : TRUE

-----------------------------------------------------------------------------
(* MainWindow and AnalysisWorker (src/src/ui/main_window.py).  The window is a *)
(* record of the fields the handlers read and write: the index of the page     *)
(* shown by the stack, the number shown by the step label, the value of the    *)
(* header progress bar, the visibility and the enabling of the navigation      *)
(* buttons, the reader, the preview, the combo boxes of the column mapper and  *)
(* the current worker.  The workers are the sequence of the AnalysisWorker     *)
(* objects created so far, the signals in flight a queue of the signals the    *)
(* worker threads have emitted and the main thread has not handled yet.        *)

\* ColumnMapperWidget.set_preview: the roles of the combo boxes, in their order
fields == << PATIENT_ID, DATETIME, DATE, TIME, SBP, DBP, HEART_RATE >>

\* the data of the current item of a combo box that shows a column
Data(source_col) == [data |-> source_col]

\* reverse_detected: the first column detected as col_type, if any
ReverseDetected(detected, col_type) ==
    LET found == { i \in DOMAIN detected : detected[i].target_type = col_type }
    IN  IF found = {} THEN None
        ELSE Data(detected[CHOOSE i \in found : \A j \in found : i <= j].source_column)

\* set_preview: one combo box per role, on the column detected for the role
set_preview(preview) ==
    [k \in DOMAIN fields |-> ReverseDetected(preview.detected_mappings, fields[k])]

\* mapping[source_col] = col_type on a dict given as the sequence of its items:
\* a key set again keeps its place
SetItem(mapping, source_col, col_type) ==
    LET at == { i \in DOMAIN mapping : mapping[i].source_column = source_col }
    IN  IF at = {}
        THEN Append(mapping, [source_column |-> source_col, target_type |-> col_type])
        ELSE [i \in DOMAIN mapping |->
                 IF i \in at THEN [mapping[i] EXCEPT !.target_type = col_type]
                 ELSE mapping[i]]

RECURSIVE get_mapping_upto(_, _)
\* get_mapping after the first k combo boxes: a dict of source column to role
get_mapping_upto(combos, k) ==
    IF k = 0 THEN << >>
    ELSE CHOOSE mapping \in
            { IF combos[k] = None THEN before
              ELSE SetItem(before, combos[k].data, fields[k]) :
                before \in { get_mapping_upto(combos, k - 1) } } : TRUE

get_mapping(combos) == get_mapping_upto(combos, Len(combos))

\* the values of a mapping
MappingValues(mapping) == { mapping[i].target_type : i \in DOMAIN mapping }

\* MainWindow.__init__ and setup_ui
MainWindow ==
    [stack |-> 0, step_label |-> 1, progress |-> 1,
     back_visible |-> FALSE, next_visible |-> TRUE, next_enabled |-> FALSE,
     next_text |-> "btn_continue",
     processing_maximum |-> 0, processing_value |-> 0,
     processing_status |-> "calculating_metrics",
     excel_reader |-> ExcelReader, preview |-> None, combos |-> << >>,
     normalized_data |-> None, results |-> None, analysis_worker |-> None]

\* _on_file_dropped: a load_file that raises is reported and changes the reader
\* only
_on_file_dropped(w, file) ==
    CHOOSE after \in
        { IF IsRaise(call.result) THEN [w EXCEPT !.excel_reader = call.reader]
          ELSE [w EXCEPT !.excel_reader = call.reader,
                         !.preview = call.result,
                         !.combos = set_preview(call.result),
                         !.next_enabled = TRUE] :
            call \in { load_file_on(w.excel_reader, file) } } : TRUE

\* MainWindow._on_mapping_changed
_on_mapping_changed(w, mapping) ==
    LET has_sbp == SBP \in MappingValues(mapping)
        has_dbp == DBP \in MappingValues(mapping)
    IN  [w EXCEPT !.next_enabled = has_sbp /\ has_dbp]

\* mutant: the processing page leaves the navigation buttons as they are
ShowProcessing_buttons_shown(w) ==
    [w EXCEPT !.stack = 2, !.step_label = 3, !.progress = 3]

\* go_next, lines 708-712: the processing page
ShowProcessing(w) ==
    [w EXCEPT !.stack = 2, !.next_visible = FALSE, !.back_visible = FALSE,
              !.step_label = 3, !.progress = 3]

\* _run_analysis: the window once the worker, the worker-th of the workers, is
\* created and started
_run_analysis(w, worker) ==
    [w EXCEPT !.processing_maximum = 100, !.processing_value = 0,
              !.analysis_worker = [worker |-> worker]]

\* go_next; from the mapping page it starts the worker-th worker
go_next(w, worker) ==
    CASE w.stack = 0 ->
            [w EXCEPT !.stack = 1, !.back_visible = TRUE,
                      !.step_label = 2, !.progress = 2]
      [] w.stack = 1 -> _run_analysis(ShowProcessing(w), worker)
      [] w.stack = 2 ->
            [w EXCEPT !.stack = 3, !.back_visible = TRUE,
                      !.next_text = "btn_new_analysis", !.next_visible = TRUE,
                      !.step_label = 4, !.progress = 4]
      [] w.stack = 3 ->
            [w EXCEPT !.stack = 0, !.back_visible = FALSE,
                      !.next_text = "btn_continue", !.next_enabled = FALSE,
                      !.step_label = 1, !.progress = 1]

\* go_back
go_back(w) ==
    CASE w.stack = 1 ->
            [w EXCEPT !.stack = 0, !.back_visible = FALSE,
                      !.step_label = 1, !.progress = 1]
      [] w.stack = 3 ->
            [w EXCEPT !.stack = 1, !.next_text = "btn_continue",
                      !.step_label = 2, !.progress = 2]
      [] OTHER -> w

\* AnalysisWorker.__init__
AnalysisWorker(mapping) == [mapping |-> mapping, normalized_data |-> None, at |-> "run"]

\* a signal of the worker-th worker in flight
Signal(worker, name, args) == [worker |-> worker, signal |-> name, args |-> args]

\* _on_analysis_progress
_on_analysis_progress(w, percent, status) ==
    [w EXCEPT !.processing_value = percent, !.processing_status = status]

\* _on_analysis_finished; workers are the workers created so far
_on_analysis_finished(w, workers, results) ==
    go_next([w EXCEPT !.results = results,
                      !.normalized_data =
                          IF w.analysis_worker # None
                          THEN workers[w.analysis_worker.worker].normalized_data
                          ELSE @,
                      !.processing_maximum = 0],
            Len(workers) + 1)

\* mutant: the error handler leaves the page and the buttons as they are
_on_analysis_error_stays(w) == [w EXCEPT !.processing_maximum = 0]

\* _on_analysis_error
_on_analysis_error(w) ==
    [w EXCEPT !.processing_maximum = 0, !.stack = 1,
              !.back_visible = TRUE, !.next_visible = TRUE]

-----------------------------------------------------------------------------
(* Inputs *)

\* the rows with a timestamp from ts, an SBP cell from ss and a DBP cell from
\* ds (sequences of cells), as a sequence
RowList(ts, ss, ds) ==
    [i \in 1..(Len(ts) * Len(ss) * Len(ds)) |->
        [timestamp |-> ts[((i - 1) % Len(ts)) + 1],
         sbp |-> ss[(((i - 1) \div Len(ts)) % Len(ss)) + 1],
         dbp |-> ds[((i - 1) \div (Len(ts) * Len(ss))) + 1]]]

\* a total order on rows that is not the order of time
CellKey(x) == IF isnan(x) THEN 999 ELSE x.n
RowKey(r) == (CellKey(r.sbp) * 1000 + CellKey(r.dbp)) * 100 + CellKey(r.timestamp)

\* Row r may be appended to the group df.  One group is built for each class
\* of groups that sort_values cannot tell apart: the sort forgets the input
\* order of the rows that have a timestamp (rows with equal timestamps come out
\* in any order) and keeps the input order of the rows that have none.  So the
\* rows with a timestamp come first, in RowKey order, and the rows without
\* follow in every order.
MayAppend(df, r) ==
    IF isnan(r.timestamp) \/ Len(df) = 0 THEN TRUE
    ELSE /\ ~isnan(df[Len(df)].timestamp)
         /\ RowKey(df[Len(df)]) <= RowKey(r)

\* readings with missing cells: at 09:00 (day) and 02:00 (night) of day 0
Rows ==
    RowList(<< Int2Float(9), Int2Float(2) >>,
            << Int2Float(100), Int2Float(130), NaN >>,
            << Int2Float(80), NaN >>)

\* complete readings around the clock: at 09:00 (day), 02:00 (night), 23:00
\* and 07:00 (in neither bucket) of day 0
CircadianRows ==
    RowList(<< Int2Float(9), Int2Float(2), Int2Float(23), Int2Float(7) >>,
            << Int2Float(100), Int2Float(130) >>,
            << Int2Float(70), Int2Float(80) >>)

\* complete readings whose means fall on, below and above the thresholds of
\* the hypertension stages, each at 09:00 of a day of its own
StageRows ==
    LET rows == RowList(<< Zero >>,
                        << Int2Float(110), Int2Float(130), Int2Float(150), Int2Float(212) >>,
                        << Int2Float(70), Int2Float(90), Int2Float(150) >>)
    IN  [i \in DOMAIN rows |-> [rows[i] EXCEPT !.timestamp = Int2Float(24 * i + 9)]]

\* complete readings some of which have no timestamp: at 09:00, at 02:00 and
\* without a timestamp
UntimedRows ==
    RowList(<< Int2Float(9), Int2Float(2), NaT >>,
            << Int2Float(100), Int2Float(130) >>,
            << Int2Float(80) >>)

\* complete readings of patients 1 and 2 and readings whose patient_id cell
\* is missing: 100/80 on the morning of day 0, 130/80 on the morning of day 1
PatientRows ==
    { [patient_id |-> p, timestamp |-> Int2Float(bp[1]), sbp |-> Int2Float(bp[2]),
       dbp |-> Int2Float(80)] :
        p \in { Int2Float(1), Int2Float(2), NaN }, bp \in { <<9, 100>>, <<33, 130>> } }

\* the patient_col argument: absent, empty, the patient column, no column
PatientCols == { None, [name |-> ""], [name |-> "patient_id"], [name |-> "ward"] }

\* complete readings at 09:00, 10:00 and 11:00 of day 0, handed over in any
\* order
OrderRows ==
    { [timestamp |-> Int2Float(t), sbp |-> Int2Float(sbp), dbp |-> Int2Float(80)] :
        t \in { 9, 10, 11 }, sbp \in { 100, 130 } }

\* column names as a file gives them
ColumnNames ==
    { << "D", "B", "P" >>,
      << " ", "S", "y", "s", "t", "o", "l", "i", "c", " " >>,
      << "p", "a", "t", "i", "e", "n", "t", "_", "i", "d" >>,
      << "V", "i", "s", "i", "t", " ", "D", "a", "t", "e", " ", "T", "i", "m", "e" >>,
      << "n", "o", "t", "e", "s", "_", "h", "r" >>,
      << "w", "e", "i", "g", "h", "t" >> }

\* a text cell: what its parse as a timestamp gives
Text(parsed) == [parsed |-> parsed]

\* the cells of a column of two rows: numbers in the range of an SBP; a number
\* out of every range and a missing cell; text that parses as timestamps; an
\* object column of a number out of every range and a text that does not parse
ColumnCells ==
    { [numeric |-> TRUE, cells |-> << Int2Float(130), Int2Float(150) >>],
      [numeric |-> TRUE, cells |-> << Int2Float(400), NaN >>],
      [numeric |-> FALSE, cells |-> << Text(Int2Float(9)), Text(Int2Float(34)) >>],
      [numeric |-> FALSE, cells |-> << Int2Float(400), Text(NaT) >>] }

\* the cells a numeric column can hold, and the cells a text column can hold:
\* text that parses to 09:00 of day 0 or to 10:00 of day 1, text that does not
\* parse, a missing cell
NumericCells == { Int2Float(20), Int2Float(60), Int2Float(130), Int2Float(3000), NaN }
TextCells == { Text(Int2Float(9)), Text(Int2Float(34)), Text(NaT), NaN }

\* the canonical field names, and a file with these columns and no row
CanonicalNames ==
    << << "s", "b", "p" >>,
       << "d", "b", "p" >>,
       << "h", "e", "a", "r", "t", "_", "r", "a", "t", "e" >>,
       << "p", "a", "t", "i", "e", "n", "t", "_", "i", "d" >>,
       << "d", "a", "t", "e", "t", "i", "m", "e" >> >>

CanonicalFile ==
    [i \in 1..5 |-> [name |-> CanonicalNames[i], numeric |-> i # 5, cells |-> << >>]]

\* the rows of such a file: an SBP of 120 or 400 or none, a DBP of 80 or 20 or
\* none, a heart rate, a patient, and a text that parses to 09:00 of day 0
CanonicalRows ==
    { << sbp, dbp, Int2Float(70), Int2Float(1), Text(Int2Float(9)) >> :
        sbp \in { Int2Float(120), Int2Float(400), NaN },
        dbp \in { Int2Float(80), Int2Float(20), NaN } }

\* values handed to _calculate_arv
ArvValues == { Int2Float(100), Int2Float(120), Int2Float(150) }

\* dipping percentages: every tenth from -MaxDip to 20 + MaxDip, and the
\* values 0.0001 off the class boundaries
DippingPcts ==
    { Num(k, 10) : k \in (-10 * MaxDip)..(10 * (20 + MaxDip)) }
    \cup { Num(b * 10000 + e, 10000) : b \in {0, 10, 20}, e \in {-1, 1} }

\* what _split_day_night returns for buckets with these SBP values (the DBP
\* values play no part in the morning surge)
DayNight(day_sbp, night_sbp) ==
    [daytime |->
        [sbp |-> day_sbp,
         dbp |-> [i \in DOMAIN day_sbp |-> Int2Float(80)],
         hours |-> DAYTIME_END - DAYTIME_START],
     nighttime |->
        [sbp |-> night_sbp,
         dbp |-> [i \in DOMAIN night_sbp |-> Int2Float(80)],
         hours |-> NIGHTTIME_END - NIGHTTIME_START + 24 - DAYTIME_END + DAYTIME_START]]

\* day/night splits that pass the gate: 2 to MaxDay daytime readings in
\* chronological order, 2 nighttime readings
SurgeInputs ==
    { DayNight(d, n) :
        d \in UNION { [1..k -> { Int2Float(100), Int2Float(130) }] : k \in 2..MaxDay },
        n \in [1..2 -> { Int2Float(90), Int2Float(100) }] }

\* clinic visits: of patient 1 on 3 days, of patient 2 on 2 days; a visit of
\* patient 1 stored without its measurement has 0/0
VisitRows ==
    { [patient_id |-> Int2Float(v[1]), visit_date |-> Int2Float(v[2]),
       sbp |-> Int2Float(v[3][1]), dbp |-> Int2Float(v[3][2])] :
        v \in ({1} \X (1..3) \X { <<0, 0>>, <<120, 80>>, <<150, 90>> })
              \cup ({2} \X (1..2) \X { <<120, 80>>, <<150, 90>> }) }

\* the names of the columns of the files given to the reader
DateName == << "D", "a", "t", "e" >>
TimeName == << "T", "i", "m", "e" >>
StampName == << "T", "i", "m", "e", "s", "t", "a", "m", "p" >>
SbpName == << "S", "B", "P" >>
NotesName == << "N", "o", "t", "e", "s" >>
PulseName == << "P", "u", "l", "s", "e" >>

\* cells of a date column (a day) and of a time column (an hour of the day), NaT
\* for a text that is neither; a cell of free text; a text cell of a number
\* column: the number it spells, NaN for none
DateCell(day) == [date |-> day]
TimeCell(t) == [time |-> t]
NoteCell(t) == [note |-> t]
NumberText(x) == [text |-> x]

\* a table of three rows: a date, a time, a timestamp (which differs from date
\* and time together), an SBP and a notes column.  The date of row 2, the time
\* of row 3 and the timestamp of row 2 do not parse, the SBP of row 2 spells no
\* number
ReadingsTable ==
    << [name |-> DateName, numeric |-> FALSE,
        cells |-> << DateCell(Int2Float(1)), DateCell(NaT), DateCell(Int2Float(2)) >>],
       [name |-> TimeName, numeric |-> FALSE,
        cells |-> << TimeCell(Int2Float(9)), TimeCell(Int2Float(10)), TimeCell(NaT) >>],
       [name |-> StampName, numeric |-> FALSE,
        cells |-> << Text(Int2Float(100)), Text(NaT), Text(Int2Float(200)) >>],
       [name |-> SbpName, numeric |-> FALSE,
        cells |-> << Int2Float(120), NumberText(NaN), NumberText(Int2Float(135)) >>],
       [name |-> NotesName, numeric |-> FALSE,
        cells |-> << NoteCell("a"), NoteCell("b"), NoteCell("c") >>] >>

\* a table with two SBP columns whose names differ in a trailing blank, and a
\* table with two such date columns
TwoSbpTable ==
    << [name |-> SbpName, numeric |-> TRUE, cells |-> << Int2Float(120) >>],
       [name |-> SbpName \o << " " >>, numeric |-> TRUE, cells |-> << Int2Float(125) >>] >>

TwoDateTable ==
    << [name |-> DateName, numeric |-> FALSE, cells |-> << DateCell(Int2Float(1)) >>],
       [name |-> DateName \o << " " >>, numeric |-> FALSE,
        cells |-> << DateCell(Int2Float(2)) >>],
       [name |-> NotesName, numeric |-> FALSE, cells |-> << NoteCell("a") >>] >>

\* the files given to load_file
Files ==
    { [file_path |-> "readings.xlsx", supported |-> TRUE, table |-> ReadingsTable],
      [file_path |-> "readings.txt", supported |-> FALSE, table |-> ReadingsTable],
      [file_path |-> "two_sbp.csv", supported |-> TRUE, table |-> TwoSbpTable],
      [file_path |-> "two_date.csv", supported |-> TRUE, table |-> TwoDateTable] }

\* the items a mapping given to apply_mapping is made of, in the order of its
\* keys: for each source column the roles it may be given.  No table has a
\* column Pulse
MappingItems ==
    << [source_column |-> DateName, roles |-> { DATE, IGNORE }],
       [source_column |-> TimeName, roles |-> { TIME }],
       [source_column |-> StampName, roles |-> { DATETIME }],
       [source_column |-> SbpName, roles |-> { SBP }],
       [source_column |-> NotesName, roles |-> { NOTES, IGNORE }],
       [source_column |-> PulseName, roles |-> { HEART_RATE }] >>

\* the files given to the wizard: a table of a DBP and an SBP column, a table
\* of one column of text that is no date, and a file of an unsupported type
\* (the file dialog offers all files)
WizardFiles ==
    { [file_path |-> "bp.csv", supported |-> TRUE,
       table |-> << [name |-> << "D", "B", "P" >>, numeric |-> TRUE,
                     cells |-> << Int2Float(80), Int2Float(85) >>],
                    [name |-> << " ", "S", "y", "s", "t", "o", "l", "i", "c", " " >>,
                     numeric |-> TRUE,
                     cells |-> << Int2Float(120), Int2Float(130) >>] >>],
      [file_path |-> "weight.csv", supported |-> TRUE,
       table |-> << [name |-> << "w", "e", "i", "g", "h", "t" >>, numeric |-> FALSE,
                     cells |-> << Text(NaT), Text(NaT) >>] >>],
      [file_path |-> "bp.txt", supported |-> FALSE, table |-> << >>] }

\* the combo boxes the user changes: those of SBP and DBP
EditedFields == { k \in DOMAIN fields : fields[k] \in { SBP, DBP } }

\* complete readings at 09:00 and 10:00 (day) and at 02:00 and 03:00 (night)
\* with an SBP of 113, 125 or 126: day means and night means whose dipping
\* percentages lie on both sides of 10 within a twentieth
ReportedRows ==
    RowList(<< Int2Float(9), Int2Float(10), Int2Float(2), Int2Float(3) >>,
            << Int2Float(113), Int2Float(125), Int2Float(126) >>,
            << Int2Float(80) >>)

-----------------------------------------------------------------------------
(* Actions *)

\* the caller hands over one more reading of the group
AddReading(rows) ==
    /\ pc = "group"
    /\ Len(input) < MaxReadings
    /\ \E i \in DOMAIN rows :
          /\ MayAppend(input, rows[i])
          /\ input' = Append(input, rows[i])
    /\ UNCHANGED <<pc, output, frame>>

CalculatePatientMetrics ==
    /\ pc = "group"
    /\ \E call \in { PatientMetrics(sorted) : sorted \in sort_values(input) } :
          /\ frame' = call.locals
          /\ output' = call.result
          /\ pc' = IF IsRaise(call.result) THEN "raised" ELSE "returned"
    /\ UNCHANGED input

\* the caller's array grows by one value
AddValue ==
    /\ pc = "_calculate_arv"
    /\ Len(input) < MaxValues
    /\ \E v \in ArvValues : input' = Append(input, v)
    /\ UNCHANGED <<pc, output, frame>>

CalculateArv ==
    /\ pc = "_calculate_arv"
    /\ output' = _calculate_arv(input)
    /\ pc' = "returned"
    /\ UNCHANGED <<input, frame>>

ClassifyDipping ==
    /\ pc = "_classify_dipping"
    /\ output' = _classify_dipping(input)
    /\ pc' = "returned"
    /\ UNCHANGED <<input, frame>>

CalculateMorningSurge ==
    /\ pc = "_calculate_morning_surge"
    /\ output' = _calculate_morning_surge(input)
    /\ pc' = "returned"
    /\ UNCHANGED <<input, frame>>

\* the caller's visits frame grows by one row
AddVisit ==
    /\ pc = "visits"
    /\ Len(input) < MaxVisits
    /\ \E r \in VisitRows : input' = Append(input, r)
    /\ UNCHANGED <<pc, output, frame>>

CalculateVisitToVisit ==
    /\ pc = "visits"
    /\ output' \in calculate_visit_to_visit_variability(input)
    /\ pc' = "returned"
    /\ UNCHANGED <<input, frame>>

\* the caller's readings frame grows by one row
AddPatientReading ==
    /\ pc = "readings"
    /\ Len(input) < MaxReadings
    /\ \E r \in PatientRows : input' = Append(input, r)
    /\ UNCHANGED <<pc, output, frame>>

CalculateAllMetrics ==
    /\ pc = "readings"
    /\ \E patient_col \in PatientCols :
          /\ frame' = [patient_col |-> patient_col]
          /\ \E results \in calculate_all_metrics(input, patient_col) :
                /\ output' = results
                /\ pc' = IF IsRaise(results) THEN "raised" ELSE "returned"
    /\ UNCHANGED input

\* the caller hands over one more reading, in any order of time
AddReadingAnyOrder ==
    /\ pc = "group"
    /\ Len(input) < MaxReadings
    /\ \E r \in OrderRows : input' = Append(input, r)
    /\ UNCHANGED <<pc, output, frame>>

\* the file has one more column; its name differs from the names before it
AddColumn ==
    /\ pc = "file"
    /\ Len(input) < MaxColumns
    /\ \E name \in ColumnNames, content \in ColumnCells :
          /\ \A i \in DOMAIN input : strip(input[i].name) # strip(name)
          /\ input' = Append(input, [name |-> name] @@ content)
    /\ UNCHANGED <<pc, output, frame>>

LoadFile ==
    /\ pc = "file"
    /\ \E call \in { load_file(input) } :
          /\ frame' = [raw_data |-> call.raw_data]
          /\ output' = call.preview
    /\ pc' = "returned"
    /\ UNCHANGED input

\* the only column of the file has one more row
AddCell ==
    /\ pc = "file"
    /\ Len(input[1].cells) < MaxCells
    /\ \E cell \in IF input[1].numeric THEN NumericCells ELSE TextCells :
          input' = [input EXCEPT ![1].cells = Append(@, cell)]
    /\ UNCHANGED <<pc, output, frame>>

\* the file has one more row
AddRow ==
    /\ pc = "file"
    /\ Len(input[1].cells) < MaxRows
    /\ \E row \in CanonicalRows :
          input' = [i \in DOMAIN input |->
                        [input[i] EXCEPT !.cells = Append(@, row[i])]]
    /\ UNCHANGED <<pc, output, frame>>

\* the caller decides whether the mapping has a key for the next source column,
\* and its role
AddMapping ==
    /\ pc \in { "reader", "raised" }
    /\ input.next <= Len(MappingItems)
    /\ \/ input' = [input EXCEPT !.next = @ + 1]
       \/ \E role \in MappingItems[input.next].roles :
             input' = [next |-> input.next + 1,
                       mappings |-> Append(input.mappings,
                           [source_column |-> MappingItems[input.next].source_column,
                            target_type |-> role])]
    /\ UNCHANGED <<pc, output, frame>>

\* load_file(file) on the reader; frame.succeeded records that a load_file has
\* returned
LoadFileOn ==
    /\ pc \in { "reader", "raised" }
    /\ \E file \in Files :
          \E call \in { load_file_on(frame.reader, file) } :
             /\ frame' = [reader |-> call.reader,
                          succeeded |-> frame.succeeded \/ ~IsRaise(call.result)]
             /\ output' = call.result
             /\ pc' = IF IsRaise(call.result) THEN "raised" ELSE "reader"
    /\ UNCHANGED input

\* apply_mapping(mappings) on the reader
ApplyMapping ==
    /\ pc \in { "reader", "raised" }
    /\ \E call \in { apply_mapping(frame.reader, input.mappings) } :
          /\ frame' = [frame EXCEPT !.reader = call.reader]
          /\ output' = call.result
          /\ pc' = IF IsRaise(call.result) THEN "apply_mapping raised"
                   ELSE "apply_mapping returned"
    /\ UNCHANGED input

\* after a call of apply_mapping that raised, the caller goes on with the reader
Retry ==
    /\ pc = "apply_mapping raised"
    /\ pc' = "raised"
    /\ UNCHANGED <<input, output, frame>>

\* the user chooses a file on the upload page
DropFile ==
    /\ frame.stack = 0
    /\ \E file \in WizardFiles :
          \E w \in { _on_file_dropped(frame, file) } : frame' = w
    /\ UNCHANGED <<pc, input, output>>

\* the user changes a combo box on the mapping page; the mapper emits
\* mapping_changed with its mapping
ChangeMapping ==
    /\ frame.stack = 1
    /\ \E k \in EditedFields :
          \E item \in { None } \cup
                      { Data(frame.preview.columns[i]) : i \in DOMAIN frame.preview.columns } :
             /\ item # frame.combos[k]
             /\ \E combos \in { [frame.combos EXCEPT ![k] = item] } :
                   frame' = _on_mapping_changed([frame EXCEPT !.combos = combos],
                                                get_mapping(combos))
    /\ UNCHANGED <<pc, input, output>>

\* the user clicks Continue, which is visible and enabled; from the mapping page
\* _run_analysis creates and starts a worker with the mapping of the mapper
ClickNext ==
    /\ frame.next_visible /\ frame.next_enabled
    /\ frame.stack = 1 => Len(output) < MaxAnalyses
    /\ frame' = go_next(frame, Len(output) + 1)
    /\ output' = IF frame.stack = 1
                 THEN Append(output, AnalysisWorker(get_mapping(frame.combos)))
                 ELSE output
    /\ UNCHANGED <<pc, input>>

\* the user clicks Back, which is visible
ClickBack ==
    /\ frame.back_visible
    /\ frame' = go_back(frame)
    /\ UNCHANGED <<pc, input, output>>

\* AnalysisWorker.run, lines 48-54: the thread of a worker applies the mapping
\* on the reader of the window
WorkerApply ==
    \E i \in DOMAIN output :
       /\ output[i].at = "run"
       /\ \E call \in { apply_mapping(frame.excel_reader, output[i].mapping) } :
             /\ frame' = [frame EXCEPT !.excel_reader = call.reader]
             /\ IF IsRaise(call.result)
                THEN /\ output' = [output EXCEPT ![i].at = "done"]
                     /\ input' = input
                            \o << Signal(i, "progress", << 10, "applying_mapping" >>),
                                  Signal(i, "error", call.result) >>
                ELSE /\ output' = [output EXCEPT ![i].at = "calculate",
                                                 ![i].normalized_data = call.result]
                     /\ input' = input
                            \o << Signal(i, "progress", << 10, "applying_mapping" >>),
                                  Signal(i, "progress", << 30, "calculating_metrics" >>) >>
       /\ UNCHANGED pc

\* AnalysisWorker.run, lines 56-72: calculate_all_metrics raises without an sbp
\* or a dbp column, and for some data with them (a group without a complete
\* reading); otherwise the worker emits its results
WorkerCalculate ==
    \E i \in DOMAIN output :
       /\ output[i].at = "calculate"
       /\ output' = [output EXCEPT ![i].at = "done"]
       /\ \/ /\ { "sbp", "dbp" } \subseteq DOMAIN output[i].normalized_data
             /\ input' = input
                    \o << Signal(i, "progress", << 100, "analysis_complete" >>),
                          Signal(i, "finished", [results |-> i]) >>
          \/ input' = Append(input, Signal(i, "error", Raise("Exception", 59)))
       /\ UNCHANGED <<pc, frame>>

\* the event loop of the main thread delivers the first signal in flight to the
\* slot connected to it
Deliver ==
    /\ input # << >>
    /\ input' = Tail(input)
    /\ frame' =
          CASE Head(input).signal = "progress" ->
                  _on_analysis_progress(frame, Head(input).args[1], Head(input).args[2])
            [] Head(input).signal = "finished" ->
                  _on_analysis_finished(frame, output, Head(input).args)
            [] Head(input).signal = "error" -> _on_analysis_error(frame)
    /\ UNCHANGED <<pc, output>>

-----------------------------------------------------------------------------
(* Specifications *)

Init ==
    /\ pc = "group"
    /\ input = <<>>
    /\ output = None
    /\ frame = None

Next ==
    \/ AddReading(Rows)
    \/ CalculatePatientMetrics

\* _calculate_patient_metrics on the groups of at most MaxReadings rows of Rows
Spec == Init /\ [][Next]_vars

NextCircadian ==
    \/ AddReading(CircadianRows)
    \/ CalculatePatientMetrics

\* _calculate_patient_metrics on the groups of rows of CircadianRows
SpecCircadian == Init /\ [][NextCircadian]_vars

NextStage ==
    \/ AddReading(StageRows)
    \/ CalculatePatientMetrics

\* _calculate_patient_metrics on the groups of rows of StageRows
SpecStage == Init /\ [][NextStage]_vars

NextUntimed ==
    \/ AddReading(UntimedRows)
    \/ CalculatePatientMetrics

\* _calculate_patient_metrics on the groups of rows of UntimedRows
SpecUntimed == Init /\ [][NextUntimed]_vars

NextOrder ==
    \/ AddReadingAnyOrder
    \/ CalculatePatientMetrics

\* _calculate_patient_metrics on the groups of rows of OrderRows in every order
SpecOrder == Init /\ [][NextOrder]_vars

InitArv ==
    /\ pc = "_calculate_arv"
    /\ input = <<>>
    /\ output = None
    /\ frame = None

NextArv ==
    \/ AddValue
    \/ CalculateArv

\* _calculate_arv on every array of at most MaxValues values
SpecArv == InitArv /\ [][NextArv]_vars

InitDipping ==
    /\ pc = "_classify_dipping"
    /\ input \in DippingPcts
    /\ output = None
    /\ frame = None

\* _classify_dipping on every percentage of DippingPcts
SpecDipping == InitDipping /\ [][ClassifyDipping]_vars

InitSurge ==
    /\ pc = "_calculate_morning_surge"
    /\ input \in SurgeInputs
    /\ output = None
    /\ frame = None

\* _calculate_morning_surge on every split of SurgeInputs
SpecSurge == InitSurge /\ [][CalculateMorningSurge]_vars

InitVisits ==
    /\ pc = "visits"
    /\ input = <<>>
    /\ output = None
    /\ frame = None

NextVisits ==
    \/ AddVisit
    \/ CalculateVisitToVisit

\* calculate_visit_to_visit_variability on the frames of at most MaxVisits rows
SpecVisits == InitVisits /\ [][NextVisits]_vars

InitAll ==
    /\ pc = "readings"
    /\ input = <<>>
    /\ output = None
    /\ frame = None

NextAll ==
    \/ AddPatientReading
    \/ CalculateAllMetrics

\* calculate_all_metrics on the frames of at most MaxReadings rows of PatientRows
SpecAll == InitAll /\ [][NextAll]_vars

InitFile ==
    /\ pc = "file"
    /\ input = <<>>
    /\ output = None
    /\ frame = None

NextNames ==
    \/ AddColumn
    \/ LoadFile

\* load_file on the files of at most MaxColumns columns
SpecNames == InitFile /\ [][NextNames]_vars

\* a file of one column, of numbers or of text, whose name matches no role
InitContent ==
    /\ pc = "file"
    /\ \E numeric \in BOOLEAN :
          input = << [name |-> << "x" >>, numeric |-> numeric, cells |-> << >>] >>
    /\ output = None
    /\ frame = None

NextContent ==
    \/ AddCell
    \/ LoadFile

\* load_file on the files of one unnamed column of at most MaxCells rows
SpecContent == InitContent /\ [][NextContent]_vars

InitCanonical ==
    /\ pc = "file"
    /\ input = CanonicalFile
    /\ output = None
    /\ frame = None

NextCanonical ==
    \/ AddRow
    \/ LoadFile

\* load_file on the files with the canonical column names and at most MaxRows rows
SpecCanonical == InitCanonical /\ [][NextCanonical]_vars

InitReader ==
    /\ pc = "reader"
    /\ input = [next |-> 1, mappings |-> << >>]
    /\ output = None
    /\ frame = [reader |-> ExcelReader, succeeded |-> FALSE]

NextReader ==
    \/ AddMapping
    \/ LoadFileOn
    \/ ApplyMapping
    \/ Retry

\* a new reader, the calls of load_file on the files of Files and a call of
\* apply_mapping with a mapping of the items of MappingItems
SpecReader == InitReader /\ [][NextReader]_vars

InitWizard ==
    /\ pc = "exec"
    /\ input = << >>
    /\ output = << >>
    /\ frame = MainWindow

NextWizard ==
    \/ DropFile
    \/ ChangeMapping
    \/ ClickNext
    \/ ClickBack
    \/ WorkerApply
    \/ WorkerCalculate
    \/ Deliver

\* the wizard: the user's file choices, mapping changes and clicks, the threads
\* of at most MaxAnalyses workers and the delivery of their signals
SpecWizard == InitWizard /\ [][NextWizard]_vars

\* the same, where a started thread runs on and the event loop of the main
\* thread delivers every signal in flight
SpecWizardFair ==
    /\ SpecWizard
    /\ WF_vars(WorkerApply)
    /\ WF_vars(WorkerCalculate)
    /\ WF_vars(Deliver)

NextReported ==
    \/ AddReading(ReportedRows)
    \/ CalculatePatientMetrics

\* _calculate_patient_metrics on the groups of at most MaxReadings rows of
\* ReportedRows
SpecReported == Init /\ [][NextReported]_vars

-----------------------------------------------------------------------------
(* Properties *)

RECURSIVE ISum(_, _)
\* f[1] + ... + f[n] for integers
ISum(f, n) == IF n = 0 THEN 0 ELSE f[n] + ISum(f, n - 1)

\* the whole-number cells of a column of the input group
CellSum(c) == ISum([i \in DOMAIN input |-> input[i][c].n], Len(input))

\* the local hour of the input row i (the inputs of SpecCircadian all have one)
InputHour(i) == input[i].timestamp.n % 24
DayCount == Cardinality({ i \in DOMAIN input : 8 <= InputHour(i) /\ InputHour(i) < 22 })
NightCount == Cardinality({ i \in DOMAIN input : 0 <= InputHour(i) /\ InputHour(i) < 6 })

(* C1: _calculate_arv returns the mean of |x[i+1] - x[i]| over the consecutive *)
(* pairs of an array of length >= 2, and 0 for an array of length 0 or 1.     *)
C1_ArvIsMeanAbsDiff ==
    pc = "returned" =>
        IF Len(input) >= 2
        THEN LET step == [i \in 1..(Len(input) - 1) |->
                            IF input[i + 1].n >= input[i].n
                            THEN input[i + 1].n - input[i].n
                            ELSE input[i].n - input[i + 1].n]
             IN  /\ ~isnan(output)
                 /\ output.n * (Len(input) - 1) = output.d * ISum(step, Len(input) - 1)
        ELSE output = Zero

\* 150, 100, 120: a fall of 50 and a rise of 20 give 35
C1_Witness ==
    /\ pc = "returned"
    /\ input = << Int2Float(150), Int2Float(100), Int2Float(120) >>
    /\ output = Int2Float(35)

(* C2: the stage of a group is the first match, on the group's mean SBP and    *)
(* mean DBP, of: SBP > 180 or DBP > 120 -> Crisis; SBP >= 140 or DBP >= 90 ->   *)
(* Stage 2; SBP >= 130 or DBP >= 80 -> Stage 1; SBP >= 120 -> Elevated;         *)
(* otherwise Normal.                                                           *)
C2_StageOfGroupMeans ==
    pc = "returned" =>
        LET n == Len(input)
            s == CellSum("sbp")
            d == CellSum("dbp")
            stage == output.mean_bp_classification
        IN  /\ (stage = CRISIS) = (s > 180 * n \/ d > 120 * n)
            /\ (stage = STAGE_2) =
                   (s <= 180 * n /\ d <= 120 * n /\ (s >= 140 * n \/ d >= 90 * n))
            /\ (stage = STAGE_1) =
                   (s < 140 * n /\ d < 90 * n /\ (s >= 130 * n \/ d >= 80 * n))
            /\ (stage = ELEVATED) = (s < 130 * n /\ d < 80 * n /\ s >= 120 * n)
            /\ (stage = NORMAL) = (s < 120 * n /\ d < 80 * n)

\* readings 150/70 and 212/70: mean SBP 181, mean DBP 70 is a crisis
C2_Witness ==
    /\ pc = "returned"
    /\ Len(input) = 2
    /\ CellSum("sbp") = 2 * 181
    /\ CellSum("dbp") = 2 * 70
    /\ output.mean_sbp = Int2Float(181)
    /\ output.mean_bp_classification = CRISIS

(* C3: _classify_dipping maps p < 0 to Reverse Dipper, 0 <= p < 10 to          *)
(* Non-Dipper, 10 <= p <= 20 to Normal Dipper and p > 20 to Extreme Dipper.    *)
C3_DippingClasses ==
    pc = "returned" =>
        LET n == input.n
            d == input.d
        IN  /\ (output = REVERSE_DIPPER) = (n < 0)
            /\ (output = NON_DIPPER) = (0 <= n /\ n < 10 * d)
            /\ (output = NORMAL_DIPPER) = (10 * d <= n /\ n <= 20 * d)
            /\ (output = EXTREME_DIPPER) = (n > 20 * d)

\* exactly 20 is a normal dipper
C3_Witness ==
    /\ pc = "returned"
    /\ input = Int2Float(20)
    /\ output = NORMAL_DIPPER

(* C4: when fewer than 2 readings have their hour in [8,22) or fewer than 2    *)
(* have it in [0,6), the weighted SDs, the dipping percentage, the dipping     *)
(* status and the morning surge are absent from the record; a reading with its *)
(* hour in [6,8) or [22,24) counts for neither bucket.                         *)
C4_CircadianGate ==
    (pc = "returned" /\ (DayCount < 2 \/ NightCount < 2)) =>
        /\ output.weighted_sd_sbp = None
        /\ output.weighted_sd_dbp = None
        /\ output.dipping_percentage = None
        /\ output.dipping_status = None
        /\ output.morning_surge = None

\* two daytime readings, one at 02:00 and one at 07:00: were 07:00 night, the
\* gate would pass
C4_Witness ==
    /\ pc = "returned"
    /\ Len(input) = 4
    /\ DayCount = 2
    /\ NightCount = 1
    /\ \E i \in DOMAIN input : InputHour(i) = 7
    /\ output.reading_count = 4
    /\ output.dipping_status = None
    /\ output.weighted_sd_sbp = None

\* the input rows in the day bucket and in the night bucket
DayRows == { i \in DOMAIN input : 8 <= InputHour(i) /\ InputHour(i) < 22 }
NightRows == { i \in DOMAIN input : 0 <= InputHour(i) /\ InputHour(i) < 6 }

RECURSIVE SbpSumOver(_)
\* the sum of the SBP cells of the input rows in I
SbpSumOver(I) ==
    IF I = {} THEN 0
    ELSE LET i == CHOOSE j \in I : TRUE
         IN  input[i].sbp.n + SbpSumOver(I \ {i})

(* C5: when both buckets hold at least 2 readings, the reported dipping         *)
(* percentage is 100 * (mean day SBP - mean night SBP) / mean day SBP rounded   *)
(* to 1 decimal, present whenever the mean day SBP is not 0 (also when the      *)
(* percentage is 0) and absent only when it is 0; the dipping status is present *)
(* exactly when the percentage is.                                             *)
C5_DippingPresent ==
    (pc = "returned" /\ DayCount >= 2 /\ NightCount >= 2) =>
        LET ds == SbpSumOver(DayRows)
            ns == SbpSumOver(NightRows)
        IN  /\ output.dipping_percentage =
                   IF ds = 0 THEN None
                   ELSE Round(Num(100 * (ds * NightCount - ns * DayCount), ds * NightCount), 10)
            /\ (output.dipping_status # None) = (output.dipping_percentage # None)

(* C6: when the gate passes, weighted SD = (SD_day * 14 + SD_night * 10) / 24,  *)
(* for SBP and for DBP, with the sample SDs of the day and night buckets.       *)
C6_WeightedSd14And10 ==
    (pc = "returned" /\ frame.day_night # None) =>
        LET day == frame.day_night.daytime
            night == frame.day_night.nighttime
            claimed(sd_day, sd_night) ==
                Div(Add(Mul(sd_day, Int2Float(14)), Mul(sd_night, Int2Float(10))),
                    Int2Float(24))
        IN  /\ frame.weighted_sd_sbp = claimed(np_std(day.sbp), np_std(night.sbp))
            /\ frame.weighted_sd_dbp = claimed(np_std(day.dbp), np_std(night.dbp))

\* the surge of the split `input` when the first k daytime readings are averaged
SurgeOfFirst(k) ==
    LET day == input.daytime.sbp
        night == input.nighttime.sbp
        low == CHOOSE m \in { night[i].n : i \in DOMAIN night } :
                   \A i \in DOMAIN night : m <= night[i].n
    IN  Num(ISum([i \in 1..k |-> day[i].n], k) - k * low, k)

Complete(i) == ~isnan(input[i].sbp) /\ ~isnan(input[i].dbp)
CompleteRows == { i \in DOMAIN input : Complete(i) }

(* C8: a reading that misses its SBP or its DBP is counted in no statistic and  *)
(* not in reading_count, so the SBP and the DBP statistics are computed over    *)
(* the same readings.                                                           *)
C8_IncompleteReadingsDropped ==
    pc = "returned" =>
        /\ output.reading_count = Cardinality(CompleteRows)
        /\ Len(frame.sbp) = Cardinality(CompleteRows)
        /\ Len(frame.dbp) = Cardinality(CompleteRows)

(* C9: when the surviving SBP and DBP sequences differ in length, in either     *)
(* direction, the call still returns a record and pulse_pressure_mean is the    *)
(* mean of sbp[i] - dbp[i] over the pairs up to the shorter length (stated for  *)
(* sequences of at least 2 values each, which numpy does not broadcast).       *)
C9_PulsePressureTruncates ==
    (/\ pc \in {"returned", "raised"}
     /\ Len(frame.sbp) # Len(frame.dbp)
     /\ Len(frame.sbp) >= 2
     /\ Len(frame.dbp) >= 2) =>
        LET k == IF Len(frame.sbp) < Len(frame.dbp) THEN Len(frame.sbp) ELSE Len(frame.dbp)
            diff == [i \in 1..k |-> frame.sbp[i].n - frame.dbp[i].n]
        IN  /\ pc = "returned"
            /\ output.pulse_pressure_mean = Round(Num(ISum(diff, k), k), 10)

(* C10: a group with no reading left after the readings with a missing SBP or   *)
(* DBP are dropped yields a record with reading_count = 0; the call does not    *)
(* raise.                                                                       *)
C10_EmptyGroupReturns ==
    (pc \in {"returned", "raised"} /\ CompleteRows = {}) =>
        /\ pc = "returned"
        /\ output.reading_count = 0

(* C11: division by zero is never propagated: in the result of                 *)
(* calculate_visit_to_visit_variability the coefficient of variation of a      *)
(* patient is 0 whenever the patient's mean is <= 0 (as it is in the record of *)
(* the per-patient engine).                                                    *)
C11_CvZeroWhenMeanNotPositive ==
    (pc = "returned") =>
        \A i \in DOMAIN output :
            /\ Le(output[i].mean_sbp, Zero) => output[i].cv_sbp = Zero
            /\ Le(output[i].mean_dbp, Zero) => output[i].cv_dbp = Zero

\* the sum of the squares of the cells of column c of the input
CellSqSum(c) == ISum([i \in DOMAIN input |-> input[i][c].n * input[i][c].n], Len(input))

\* sd (a float with two decimals) is within 0.01 of the sample standard
\* deviation of column c of the input, whose square is
\* (n * sum(x^2) - sum(x)^2) / (n * (n - 1))
IsSampleSd(sd, c) ==
    LET n == Len(input)
        k == (sd.n * 100) \div sd.d
        S == 10000 * (n * CellSqSum(c) - CellSum(c) * CellSum(c))
        D == n * (n - 1)
    IN  /\ ~isnan(sd)
        /\ k >= 0
        /\ (k + 1) * (k + 1) * D >= S
        /\ (k = 0 \/ (k - 1) * (k - 1) * D <= S)

(* C12: for a group of complete readings, sd_sbp and sd_dbp are the sample     *)
(* standard deviation (n-1 denominator) of the group's values when it has at   *)
(* least 2 readings; a group of exactly one reading yields reading_count = 1   *)
(* and sd, cv and arv of exactly 0.                                            *)
C12_SampleSd ==
    (pc = "returned") =>
        IF Len(input) >= 2
        THEN /\ IsSampleSd(output.sd_sbp, "sbp")
             /\ IsSampleSd(output.sd_dbp, "dbp")
        ELSE /\ output.reading_count = 1
             /\ output.sd_sbp = Zero /\ output.sd_dbp = Zero
             /\ output.cv_sbp = Zero /\ output.cv_dbp = Zero
             /\ output.arv_sbp = Zero /\ output.arv_dbp = Zero

\* a returned record of 3 readings whose SBP values differ
C12_Witness ==
    /\ pc = "returned"
    /\ Len(input) = 3
    /\ Gt(output.sd_sbp, Int2Float(17))
    /\ Lt(output.sd_sbp, Int2Float(18))

\* the rows of the sorted frame that have a timestamp, in time order
TimedRows == SelectSeq(frame.df, LAMBDA r : ~isnan(r.timestamp))

(* C13: a reading whose timestamp is missing is retained for the count, the    *)
(* mean, the minimum and the maximum, but is excluded from the sequence of     *)
(* consecutive differences of the ARV and from the day and the night bucket.   *)
C13_UntimedExcludedFromArv ==
    (pc = "returned") =>
        /\ output.reading_count = Len(input)
        /\ output.mean_sbp = Round(Num(CellSum("sbp"), Len(input)), 10)
        /\ output.min_sbp = Round(np_min(column(input, "sbp")), 10)
        /\ output.max_sbp = Round(np_max(column(input, "sbp")), 10)
        /\ output.arv_sbp = Round(_calculate_arv(column(TimedRows, "sbp")), 100)
        /\ frame.day_night # None =>
              Len(frame.day_night.daytime.sbp) + Len(frame.day_night.nighttime.sbp)
                  <= Len(TimedRows)

\* the patient identifiers that occur in the input
InputPatients == { input[i].patient_id : i \in DOMAIN input } \ {NaN}

RECURSIVE CountSum(_, _)
\* the sum of the reading counts of the records of keys K
CountSum(results, K) ==
    IF K = {} THEN 0
    ELSE LET k == CHOOSE x \in K : TRUE
         IN  results[k].reading_count + CountSum(results, K \ {k})

(* C14: calculate_all_metrics returns exactly one record per distinct patient  *)
(* identifier of the input and every input reading is in the group of exactly  *)
(* one returned record; without a patient column (or with a name that is not a *)
(* column) it returns exactly one record, under the key 'all', computed from   *)
(* all readings.                                                               *)
C14_OneRecordPerPatient ==
    (pc = "returned") =>
        IF frame.patient_col = [name |-> "patient_id"]
        THEN /\ Cardinality(DOMAIN output) = Cardinality(InputPatients)
             /\ CountSum(output, DOMAIN output) = Len(input)
        ELSE /\ DOMAIN output = {"all"}
             /\ output["all"].reading_count = Len(input)

RECURSIVE StableSort(_)
\* df sorted by timestamp ascending, rows with equal timestamps in their input
\* order
StableSort(df) ==
    IF Len(df) = 0 THEN <<>>
    ELSE LET r == df[Len(df)]
             s == StableSort(SubSeq(df, 1, Len(df) - 1))
             k == Cardinality({ i \in DOMAIN s : Le(s[i].timestamp, r.timestamp) })
         IN  SubSeq(s, 1, k) \o <<r>> \o SubSeq(s, k + 1, Len(s))

(* C15: the statistics of a group are computed over its readings sorted by     *)
(* timestamp ascending, readings with equal timestamps in their original       *)
(* relative input order (so that for pairwise distinct timestamps the record   *)
(* is the same for every permutation of the input rows).                       *)
C15_SortedStable ==
    (pc = "returned") => output = PatientMetrics(StableSort(input)).result

\* the rows of the visits of patient p in the input
VisitsOf(p) == { i \in DOMAIN input : input[i].patient_id = p }

\* the orders of the visits of patient p that ascend in visit date
DateOrders(p) ==
    { f \in [1..Cardinality(VisitsOf(p)) -> VisitsOf(p)] :
        /\ \A i, j \in DOMAIN f : i # j => f[i] # f[j]
        /\ \A i, j \in DOMAIN f :
              i < j => input[f[i]].visit_date.n <= input[f[j]].visit_date.n }

\* the sum of the absolute differences of the SBP of the visits consecutive in f
AbsDiffSum(f) ==
    ISum([i \in 1..(Len(f) - 1) |-> Abs(input[f[i + 1]].sbp.n - input[f[i]].sbp.n)],
         Len(f) - 1)

(* C16: calculate_visit_to_visit_variability returns exactly one record for    *)
(* each patient with at least 2 visits and none for a patient with fewer; the  *)
(* ARV of a record is the mean absolute difference between the visits          *)
(* consecutive in ascending visit-date order, and range_sbp = max_sbp - min_sbp *)
(* over the patient's visits.                                                  *)
C16_VisitToVisit ==
    (pc = "returned") =>
        /\ \A i, j \in DOMAIN output :
              i # j => output[i].patient_id # output[j].patient_id
        /\ { output[i].patient_id : i \in DOMAIN output }
              = { input[i].patient_id : i \in { j \in DOMAIN input :
                                                  Cardinality(VisitsOf(input[j].patient_id)) >= 2 } }
        /\ \A i \in DOMAIN output :
              LET p == output[i].patient_id
                  sbps == { input[j].sbp.n : j \in VisitsOf(p) }
                  hi == CHOOSE x \in sbps : \A y \in sbps : y <= x
                  lo == CHOOSE x \in sbps : \A y \in sbps : x <= y
              IN  /\ output[i].visit_count = Cardinality(VisitsOf(p))
                  /\ \E f \in DateOrders(p) :
                        output[i].arv_sbp = Num(AbsDiffSum(f), Len(f) - 1)
                  /\ output[i].max_sbp = Int2Float(hi)
                  /\ output[i].min_sbp = Int2Float(lo)
                  /\ output[i].range_sbp = Int2Float(hi - lo)

\* a patient with a single visit is left out, and the record of the other
\* patient differences two visits that were handed over in descending date order
C16_Witness ==
    /\ pc = "returned"
    /\ Len(input) = 3
    /\ Len(output) = 1
    /\ output[1].visit_count = 2
    /\ Gt(output[1].arv_sbp, Zero)
    /\ \E i, j \in VisitsOf(output[1].patient_id) :
          i < j /\ input[i].visit_date.n > input[j].visit_date.n

\* role matches the cleaned name of column i of the file
RoleMatches(k, i) ==
    \E j \in DOMAIN COLUMN_PATTERNS[k].patterns :
        re_search(COLUMN_PATTERNS[k].patterns[j], strip(lower(strip(input[i].name))))

(* C17: a column whose trimmed, lower-cased name matches a pattern of at least *)
(* one role gets confidence 0.8 and the first matching role in the order       *)
(* PatientId, Date, Time, DateTime, SystolicBP, DiastolicBP, HeartRate, Notes, *)
(* whatever its content.                                                       *)
C17_FirstMatchingRole ==
    (pc = "returned") =>
        \A i \in DOMAIN input :
            \A k \in DOMAIN COLUMN_PATTERNS :
                (RoleMatches(k, i) /\ \A h \in 1..(k - 1) : ~RoleMatches(h, i)) =>
                    /\ output.detected_mappings[i].target_type
                          = << PATIENT_ID, DATE, TIME, DATETIME, SBP, DBP, HEART_RATE, NOTES >>[k]
                    /\ output.detected_mappings[i].confidence = Num(8, 10)

\* the column 'Visit Date Time', which matches Date and DateTime, holds numbers
\* in the range of an SBP and is detected as Date
C17_Witness ==
    /\ pc = "returned"
    /\ \E i \in DOMAIN input :
          /\ RoleMatches(2, i) /\ RoleMatches(4, i)
          /\ input[i].numeric
          /\ input[i].cells[1] = Int2Float(130)
          /\ output.detected_mappings[i].target_type = DATE

\* the rows of the only column that are not missing, and the mapping detected
Present == { i \in DOMAIN input[1].cells : input[1].cells[i] # NaN }
Detected == << output.detected_mappings[1].target_type,
               output.detected_mappings[1].confidence >>

(* C18: for a numeric column with no name match the detected role and          *)
(* confidence depend on the mean, the minimum and the maximum of the sample    *)
(* only: (SystolicBP, 0.5) if 80 <= mean <= 200, min >= 50, max <= 250 and     *)
(* mean > 100; (DiastolicBP, 0.5) if the same ranges hold and mean <= 100;     *)
(* otherwise (HeartRate, 0.4) if 40 <= mean <= 120, min >= 30, max <= 220;     *)
(* otherwise (Ignore, 0): no date/time parsing is attempted for numbers.       *)
C18_NumericRoles ==
    (pc = "returned" /\ input[1].numeric) =>
        LET n == Cardinality(Present)
            values == { input[1].cells[i].n : i \in Present }
            sum == ISum([i \in DOMAIN input[1].cells |->
                            IF i \in Present THEN input[1].cells[i].n ELSE 0],
                        Len(input[1].cells))
            InRange(lo, hi, min, max) ==
                /\ n > 0
                /\ lo * n <= sum /\ sum <= hi * n
                /\ \A v \in values : min <= v /\ v <= max
        IN  Detected =
                IF InRange(80, 200, 50, 250)
                THEN IF sum > 100 * n THEN << SBP, Num(5, 10) >> ELSE << DBP, Num(5, 10) >>
                ELSE IF InRange(40, 120, 30, 220) THEN << HEART_RATE, Num(4, 10) >>
                ELSE << IGNORE, Zero >>

\* the rows of the only column, of text, that parse as a timestamp, and the
\* times of day they parse to
Parsing == { i \in Present : input[1].cells[i].parsed # NaT }
TimesOfDay == { input[1].cells[i].parsed.n % 24 : i \in Parsing }

\* the role of a text column of which the share `passes` of samples parses
DateRoleIf(passes) ==
    IF passes
    THEN IF Cardinality(TimesOfDay) > 1 THEN << DATETIME, Num(7, 10) >>
         ELSE << DATE, Num(6, 10) >>
    ELSE << IGNORE, Zero >>

(* C19 as claimed: a non-numeric column with no name match of which at least   *)
(* 80% of the non-missing samples parse as a timestamp, exactly 80% included,  *)
(* is DateTime (0.7) when the parsed values carry more than one distinct time  *)
(* of day and Date (0.6) otherwise; below 80% it is Ignore (0).                *)
C19_AtLeast80Percent ==
    (pc = "returned" /\ ~input[1].numeric) =>
        Detected = DateRoleIf(/\ Cardinality(Present) > 0
                              /\ 10 * Cardinality(Parsing) >= 8 * Cardinality(Present))

(* C19 amended: the column is DateTime (0.7) or Date (0.6) when more than 80%  *)
(* of the non-missing samples parse as a timestamp; at exactly 80% or below it *)
(* is Ignore (0).                                                              *)
C19_MoreThan80Percent ==
    (pc = "returned" /\ ~input[1].numeric) =>
        Detected = DateRoleIf(/\ Cardinality(Present) > 0
                              /\ 10 * Cardinality(Parsing) > 8 * Cardinality(Present))

\* 4 of the 5 samples of a text column parse, and the column is Ignore
C19_Witness ==
    /\ pc = "returned"
    /\ ~input[1].numeric
    /\ Cardinality(Present) = 5
    /\ Cardinality(Parsing) = 4
    /\ Detected = << IGNORE, Zero >>

\* every column of the file has its own canonical role with confidence 0.8
CanonicalRoles ==
    \A i \in 1..5 :
        /\ output.detected_mappings[i].source_column = CanonicalNames[i]
        /\ output.detected_mappings[i].target_type
              = << SBP, DBP, HEART_RATE, PATIENT_ID, DATETIME >>[i]
        /\ output.detected_mappings[i].confidence = Num(8, 10)

\* no cell of column i of the file is missing or outside lo .. hi
CleanColumn(i, lo, hi) ==
    \A j \in DOMAIN input[i].cells :
        /\ input[i].cells[j] # NaN
        /\ lo * input[i].cells[j].d <= input[i].cells[j].n
        /\ input[i].cells[j].n <= hi * input[i].cells[j].d

MappedRoles == { output.detected_mappings[i].target_type : i \in DOMAIN output.detected_mappings }
MappedTo(role) == { i \in DOMAIN input : output.detected_mappings[i].target_type = role }

\* the cells of column i that are missing, and its numbers outside lo .. hi
Nulls(i) == { j \in DOMAIN input[i].cells : input[i].cells[j] = NaN }
Outside(i, lo, hi) ==
    { j \in DOMAIN input[i].cells :
        /\ "n" \in DOMAIN input[i].cells[j]
        /\ input[i].cells[j] # NaN
        /\ \/ input[i].cells[j].n < lo * input[i].cells[j].d
           \/ input[i].cells[j].n > hi * input[i].cells[j].d }

\* the issues of kind `issue` about role
IssuesOf(issue, role) ==
    { k \in DOMAIN output.issues :
        /\ output.issues[k].issue = issue
        /\ output.issues[k].role = role }

\* the issues about the columns are those of the columns of `flagged` (a
\* function from role to the columns with outliers) and of the columns with
\* missing cells, and there is no other issue
IssuesAre(flagged) ==
    LET required == { k \in DOMAIN output.issues :
                        output.issues[k].issue = "Missing required columns" }
        temporal == { k \in DOMAIN output.issues :
                        output.issues[k].issue = "No date/time column detected" }
        data == DOMAIN output.issues \ (required \cup temporal)
    IN  /\ Cardinality(required) = IF {SBP, DBP} \subseteq MappedRoles THEN 0 ELSE 1
        /\ \A k \in required : output.issues[k].columns = {SBP, DBP} \ MappedRoles
        /\ Cardinality(temporal) = IF MappedRoles \cap {DATETIME, DATE} = {} THEN 1 ELSE 0
        /\ \A k \in data :
              /\ output.issues[k].issue \in { "missing values", "potential outliers" }
              /\ output.issues[k].role \in { SBP, DBP }
        /\ \A role \in { SBP, DBP } :
              LET nulls == { i \in MappedTo(role) : Nulls(i) # {} }
              IN  /\ Cardinality(IssuesOf("missing values", role)) = Cardinality(nulls)
                  /\ \A i \in nulls : \E k \in IssuesOf("missing values", role) :
                        output.issues[k].count = Cardinality(Nulls(i))
                  /\ Cardinality(IssuesOf("potential outliers", role))
                        = Cardinality(flagged[role])
                  /\ \A i \in flagged[role] : \E k \in IssuesOf("potential outliers", role) :
                        output.issues[k].count
                            = Cardinality(Outside(i, IF role = SBP THEN 50 ELSE 30,
                                                     IF role = SBP THEN 300 ELSE 200))

(* C21 as claimed: the issues are a missing-required-columns issue iff SBP or  *)
(* DBP is not among the mapped roles, a limited-temporal-analysis issue iff    *)
(* neither DateTime nor Date is mapped, and for each column mapped to SBP or   *)
(* DBP a null-count issue iff it has a missing value and an outlier issue iff  *)
(* it has a value outside [50,300] (SBP) or [30,200] (DBP); nothing else; and  *)
(* load_file returns its preview whether or not there are issues.              *)
C21_IssuesByMappingAndData ==
    (pc = "returned") =>
        IssuesAre([role \in { SBP, DBP } |->
            { i \in MappedTo(role) : Outside(i, IF role = SBP THEN 50 ELSE 30,
                                               IF role = SBP THEN 300 ELSE 200) # {} }])

(* C21 amended: as claimed, but the outlier issue of a column is reported iff  *)
(* the column has a numeric dtype and a value outside its range: the numbers   *)
(* of an object column (numbers next to text) are not checked.                 *)
C21_OutliersOfNumericColumns ==
    (pc = "returned") =>
        IssuesAre([role \in { SBP, DBP } |->
            { i \in MappedTo(role) :
                /\ input[i].numeric
                /\ Outside(i, IF role = SBP THEN 50 ELSE 30,
                              IF role = SBP THEN 300 ELSE 200) # {} }])

\* a preview with a column mapped to SBP that is an object column holding 400,
\* and no outlier issue about SBP
C21_Witness ==
    /\ pc = "returned"
    /\ \E i \in MappedTo(SBP) : ~input[i].numeric /\ Outside(i, 50, 300) # {}
    /\ IssuesOf("potential outliers", SBP) = {}
    /\ output.issues # << >>

\* the call of apply_mapping has returned; the items of its mapping; the loaded
\* table has a column named as the source of the item; its cells
Applied == pc = "apply_mapping returned"

Items == { input.mappings[i] : i \in DOMAIN input.mappings }

SourceExists(item) == ColumnsNamed(frame.reader.raw_data.table, item.source_column) # {}

SourceCells(item) ==
    frame.reader.raw_data.table[
        CHOOSE i \in ColumnsNamed(frame.reader.raw_data.table, item.source_column) : TRUE].cells

\* the fields of the output that hold a date, a time or a timestamp
Temporal == { "date", "time", "datetime" }

\* the fields of the items with a role outside `excluded` and an existing source
FieldsOf(excluded) ==
    { Value(item.target_type) :
        item \in { x \in Items : x.target_type \notin excluded /\ SourceExists(x) } }

\* an item of the mapping names a column that two columns of the table carry
NamesDuplicate ==
    \E item \in Items :
        /\ ~Skipped(item.target_type)
        /\ Cardinality(ColumnsNamed(frame.reader.raw_data.table, item.source_column)) > 1

(* C22 as claimed: apply_mapping projects exactly the items of the mapping     *)
(* whose role is neither Ignore nor Notes and whose source column is in the    *)
(* loaded table: no Ignore and no Notes column is in the output, and an item   *)
(* whose source column does not exist is skipped without raising.              *)
C22_SkipsIgnoreAndNotes ==
    Applied => DOMAIN output \ Temporal = FieldsOf({ IGNORE, NOTES }) \ Temporal

(* C22 amended: apply_mapping projects exactly the items whose role is not     *)
(* Ignore and whose source column is in the loaded table: a column mapped to   *)
(* Notes is in the output, under the field notes, with its cells as loaded; a  *)
(* column mapped to Ignore is not; an item whose source column does not exist  *)
(* is skipped, and the call raises on a loaded table only when an item names a *)
(* column that two columns carry.                                              *)
C22_SkipsIgnoreOnly ==
    /\ Applied =>
          /\ DOMAIN output \ Temporal = FieldsOf({ IGNORE }) \ Temporal
          /\ \A item \in Items :
                item.target_type = NOTES /\ SourceExists(item)
                    => output["notes"] = SourceCells(item)
    /\ pc = "apply_mapping raised" /\ frame.reader.raw_data # None => NamesDuplicate

C22_Witness ==
    /\ Applied
    /\ \E item \in Items : item.target_type = NOTES /\ SourceExists(item)
    /\ \E item \in Items : item.target_type = IGNORE /\ SourceExists(item)
    /\ \E item \in Items : item.target_type = HEART_RATE /\ ~SourceExists(item)
    /\ DOMAIN output = { "notes", "sbp" }

\* the mapping projects a column of the loaded table into the field of `role`;
\* the cells of that column
Projects(role) == \E item \in Items : item.target_type = role /\ SourceExists(item)

CellsOf(role) ==
    SourceCells(CHOOSE item \in Items : item.target_type = role /\ SourceExists(item))

\* the cells of the DateTime column parsed, and the cells of the Date and the
\* Time column parsed together
ParsedDateTime == [i \in DOMAIN CellsOf(DATETIME) |-> ParseTimestamp(CellsOf(DATETIME)[i])]

MergedDateTime ==
    [i \in DOMAIN CellsOf(DATE) |-> ParseDateTime(CellsOf(DATE)[i], CellsOf(TIME)[i])]

\* the number of rows of the loaded table
RowCount ==
    IF Len(frame.reader.raw_data.table) = 0 THEN 0
    ELSE Len(frame.reader.raw_data.table[1].cells)

(* C23: when the mapping has a Date column and a DateTime column, the          *)
(* timestamp of the output is the parsed DateTime column and the Date column   *)
(* is dropped from the output, without being merged into the timestamp.        *)
C23_DateTimeWinsDateDropped ==
    Applied /\ Projects(DATE) /\ Projects(DATETIME)
        => /\ output["datetime"] = ParsedDateTime
           /\ "date" \notin DOMAIN output

(* C24: the Date and the Time column are merged into one timestamp only when   *)
(* no DateTime column is mapped, a mapped DateTime column being never          *)
(* overwritten by the merge; a row whose merged text does not parse gets a     *)
(* missing timestamp; and every column of the output has as many rows as the   *)
(* loaded table.                                                               *)
C24_MergeOnlyWithoutDateTime ==
    Applied =>
        /\ Projects(DATETIME) => output["datetime"] = ParsedDateTime
        /\ Projects(DATE) /\ Projects(TIME) /\ ~Projects(DATETIME)
              => output["datetime"] = MergedDateTime
        /\ \A c \in DOMAIN output : Len(output[c]) = RowCount

\* what of C24 the model confirms: the merge whenever Date and Time are mapped,
\* NaT for the rows that do not parse, and the row count
C24_MergeWheneverDateAndTime ==
    Applied =>
        /\ Projects(DATE) /\ Projects(TIME)
              => /\ output["datetime"] = MergedDateTime
                 /\ \A i \in DOMAIN MergedDateTime :
                       isnan(CellsOf(DATE)[i].date) \/ isnan(CellsOf(TIME)[i].time)
                           => output["datetime"][i] = NaT
        /\ \A c \in DOMAIN output : Len(output[c]) = RowCount

\* what of C23 the model confirms: without a Time column the timestamp is the
\* parsed DateTime column, and the Date column stays in the output as loaded
C23_DateKept ==
    Applied /\ Projects(DATE) /\ Projects(DATETIME) /\ ~Projects(TIME)
        => /\ output["datetime"] = ParsedDateTime
           /\ output["date"] = CellsOf(DATE)

(* C25: apply_mapping on a reader on which no load_file has succeeded raises   *)
(* and leaves raw_data and the stored mappings of the reader as they were      *)
(* (None and empty); on a reader on which a load_file has succeeded it         *)
(* returns; it raises in no other situation.                                   *)
C25_RaisesIffNoLoadSucceeded ==
    /\ pc = "apply_mapping returned" => frame.succeeded
    /\ pc = "apply_mapping raised"
          => /\ ~frame.succeeded
             /\ frame.reader.raw_data = None
             /\ frame.reader.mappings = << >>

\* what of C25 the model confirms: while raw_data is None the call raises and
\* the reader keeps raw_data and its empty mappings; with a table in raw_data
\* it raises only for an item that names a column two columns carry
C25_RaisesIffNoData ==
    /\ frame.reader.raw_data = None
          => pc # "apply_mapping returned" /\ frame.reader.mappings = << >>
    /\ pc = "apply_mapping raised" /\ frame.reader.raw_data # None => NamesDuplicate
    /\ frame.succeeded => frame.reader.raw_data # None

(* C26: in every reachable state of the wizard the number of the step label    *)
(* and the value of the header progress bar equal the index of the current     *)
(* page + 1.                                                                   *)
C26_StepMatchesPage ==
    /\ frame.step_label = frame.stack + 1
    /\ frame.progress = frame.stack + 1

\* what of C26 the model confirms: the step and the progress value agree with
\* the page unless the page is the mapping page an analysis error has led back to
C26_StepMatchesPageButAfterError ==
    /\ frame.step_label = frame.progress
    /\ frame.step_label # frame.stack + 1 => frame.stack = 1 /\ frame.step_label = 3

(* C27: every worker the wizard has started was started with a mapping that    *)
(* assigns an SBP and a DBP column.                                            *)
C27_StartsOnlyWithSbpAndDbp ==
    \A i \in DOMAIN output : { SBP, DBP } \subseteq MappingValues(output[i].mapping)

\* the workers that have been started and have emitted neither finished nor
\* error; the final signals of a worker in flight
Running == { i \in DOMAIN output : output[i].at # "done" }

FinalSignals(i) ==
    { k \in DOMAIN input : input[k].worker = i /\ input[k].signal \in { "finished", "error" } }

\* the wizard shows the processing page
Processing == frame.stack = 2

C29_OneWorkerRunning ==
    /\ Cardinality(Running) <= 1
    /\ \A i \in Running :
          /\ Processing
          /\ ~frame.back_visible /\ ~frame.next_visible
          /\ frame.analysis_worker = [worker |-> i]

\* a second analysis is running after the first has ended
C29_Witness ==
    /\ Len(output) = 2
    /\ output[1].at = "done"
    /\ output[2].at = "calculate"

(* C30: in every record of _calculate_patient_metrics that has a dipping       *)
(* percentage, the dipping status is the classification of the reported        *)
(* percentage, the value rounded to 1 decimal: a reported 10.0 is never paired *)
(* with Non-Dipper, a reported 20.0 never with Extreme Dipper.                 *)
C30_StatusOfReportedPercentage ==
    pc = "returned" /\ output.dipping_percentage # None
        => output.dipping_status = _classify_dipping(output.dipping_percentage)

\* what of C30 the model confirms: the status is the classification of the
\* percentage before it is rounded
C30_StatusOfExactPercentage ==
    pc = "returned" /\ output.dipping_percentage # None
        => /\ output.dipping_status = _classify_dipping(frame.dipping_pct)
           /\ output.dipping_percentage = Round(frame.dipping_pct, 10)

====
